---- MODULE Spec2Model ----
(***************************************************************************)
(* maya2katana: translation of a Maya shading network into a Katana node   *)
(* document.  The module models the unique-name generator, the connection  *)
(* rename pass, the tree builder and the generateXML run of src/clip.py    *)
(* (and their counterparts in src/utils.py and src/renderer).              *)
(*                                                                         *)
(* Node names are sequences of character codes (ASCII), because the        *)
(* unique-name generator works on the last character of a name.            *)
(***************************************************************************)
EXTENDS Integers, Sequences, FiniteSets, TLC

VARIABLES
    mode,        \* which specification drives the state: "names", "rename",
                 \* "tree", "run"
    usedNames,   \* clip.usedNames / unique_name.usedNames: list of names
    seeded,      \* the list the generator was last reset with
    issued,      \* history: <<requested name, returned name>> since the reset
    pc,          \* position of the running operation
    store,       \* the NodeRecord store (preprocessedNodes): name -> record
    tree,        \* graphTree: tree node name -> list of child names
    pending,     \* store keys buildTree has still to insert
    layout,      \* tree node name -> [width, x] once calcTreeWidth/Pos ran
    hist,        \* history: what the operations did so far (for the properties)
    run          \* generateXML: its locals (nodeNames, successList, nodesXml...)

namesVars == <<usedNames, seeded, issued>>
treeVars == <<pc, store, tree, pending, layout>>
vars == <<mode, usedNames, seeded, issued, pc, store, tree, pending, layout, hist, run>>

(***************************************************************************)
(* Characters                                                              *)
(***************************************************************************)
chA == 65
chZ == 90
chOne == 49
chY == 89
cha == 97

\* node names: 'A', 'B', 'C', 'D', 'X', 'Y', 'Z'
nA == <<65>>
nB == <<66>>
nC == <<67>>
nD == <<68>>
nX == <<88>>
nY == <<89>>
nZ == <<90>>
NameList == <<nA, nB, nC, nD>>

Last(s) == s[Len(s)]
Front(s) == SubSeq(s, 1, Len(s) - 1)
SeqRange(s) == {s[i] : i \in 1..Len(s)}

\* the orders a dict or a set may be enumerated in
RECURSIVE Perms(_)
Perms(S) ==
    IF S = {} THEN {<<>>}
    ELSE UNION {{<<x>> \o p : p \in Perms(S \ {x})} : x \in S}
\* one fixed order, for loops whose result does not depend on the order
RECURSIVE SetToSeq(_)
SetToSeq(S) ==
    IF S = {} THEN <<>>
    ELSE LET x == CHOOSE y \in S : TRUE IN <<x>> \o SetToSeq(S \ {x})

(***************************************************************************)
(* Unique-name generator                                                   *)
(***************************************************************************)
\* chr(ord(name[-1]) + 1), replaced by 'AA' when it passes 'Z'
NextSuffix(c) == IF c + 1 > chZ THEN <<chA, chA>> ELSE <<c + 1>>

\* one turn of the while loop: name = name[:-1] + c
BumpOnce(name) == Front(name) \o NextSuffix(Last(name))

\* while name in usedNames: ...
RECURSIVE BumpLoop(_, _)
BumpLoopIfOnly(name, used) == IF name \in used THEN BumpOnce(name) ELSE name
BumpLoop(name, used) ==
    IF name \in used THEN BumpLoop(BumpOnce(name), used) ELSE name

\* the name getUniqueName returns for a request, given the used names
UniqueNameOf(name, used) ==
    IF name \in used
    THEN BumpLoop(IF Last(name) > chZ THEN Append(name, chA) ELSE name, used)
    ELSE name

\* the names a run may request and seed: ending in a lower-case letter,
\* in a digit, in 'Y' and in 'Z'
ReqNames == { <<cha>>, <<chOne>>, <<chY>>, <<cha, chOne>>, <<cha, chY>>, <<cha, chZ>> }
MaxSeed == 1
MaxRequests == 3
SeedLists == UNION { [1..n -> ReqNames] : n \in 0..MaxSeed }

\* generateXML: usedNames = []; usedNames += nodeNames
\* unique_name(reset=<list>): usedNames = list(reset)
UniqueNameReset(seed) ==
    /\ mode = "names"
    /\ usedNames' = seed
    /\ seeded' = seed
    /\ issued' = <<>>
    /\ UNCHANGED <<mode, treeVars, hist, run>>

\* getUniqueName(name) / unique_name(name)
GetUniqueName(name) ==
    /\ mode = "names"
    /\ Len(issued) < MaxRequests
    /\ LET res == UniqueNameOf(name, SeqRange(usedNames))
       IN /\ usedNames' = Append(usedNames, res)
          /\ issued' = Append(issued, <<name, res>>)
    /\ UNCHANGED <<mode, seeded, treeVars, hist, run>>

InitNames ==
    /\ mode = "names"
    /\ seeded \in SeedLists
    /\ usedNames = seeded
    /\ issued = <<>>
    /\ pc = "idle"
    /\ store = <<>>
    /\ tree = <<>>
    /\ pending = {}
    /\ layout = <<>>
    /\ hist = <<>>
    /\ run = <<>>

NextNames ==
    \/ \E seed \in SeedLists : UniqueNameReset(seed)
    \/ \E name \in ReqNames : GetUniqueName(name)

SpecNames == InitNames /\ [][NextNames]_vars

(***************************************************************************)
(* NodeRecords                                                             *)
(***************************************************************************)
\* an Endpoint {'node': ..., 'originalPort': ...}; obj is the identity of the
\* Python dict: two connections with the same obj are one shared dict, so
\* a rewrite through one holder is seen through the other
Endpoint(n, p, o) == [node |-> n, port |-> p, obj |-> o]

\* a NodeRecord as preprocessNode builds it; weight 0 and post FALSE stand
\* for an absent 'weight' / 'postprocess' key, named FALSE for a record
\* without 'name' (the 'Empty' record of preprocessRamp); id is the identity
\* of the Python dict, which a change of its 'name' does not change
NodeRecord(n, t, c) ==
    [name |-> n, type |-> t, conns |-> c, renamings |-> <<>>,
     weight |-> 0, post |-> FALSE, named |-> TRUE, id |-> n]

(***************************************************************************)
(* Connection Resolver: the rename pass                                    *)
(***************************************************************************)
\* first loop: renamings.update(node['renamings']) for the nodes in order;
\* a later node's entry for the same old name wins
RECURSIVE FlattenRenamings(_, _)
FlattenRenamings(nodes, order) ==
    IF order = <<>> THEN <<>>
    ELSE nodes[Last(order)].renamings @@ FlattenRenamings(nodes, Front(order))

\* the endpoint dict obj rewritten, as every holder of it sees it
SetEndpoint(nodes, o, e) ==
    [k \in DOMAIN nodes |->
        [nodes[k] EXCEPT !.conns =
            [p \in DOMAIN nodes[k].conns |->
                IF nodes[k].conns[p].obj = o THEN e ELSE nodes[k].conns[p]]]]

\* source['node'] = renaming['name'], and the port when the renaming has one
Renamed(source, renaming) ==
    [source EXCEPT !.node = renaming.name,
                   !.port = IF renaming.port # "None" THEN renaming.port ELSE @]

\* the guard of the second loop: the target is renamed and the replacement
\* is not the node holding the connection
ShouldRenameNoGuard(renamings, nodeName, source) == source.node \in DOMAIN renamings
ShouldRename(renamings, nodeName, source) ==
    /\ source.node \in DOMAIN renamings
    /\ nodeName # renamings[source.node].name

\* second loop, one connection of one node
RenameVisit(nodes, renamings, nodeName, dest) ==
    LET source == nodes[nodeName].conns[dest]
    IN IF ShouldRename(renamings, nodeName, source)
       THEN SetEndpoint(nodes, source.obj, Renamed(source, renamings[source.node]))
       ELSE nodes

\* second loop, the connections of one node
RECURSIVE RenameNode(_, _, _, _)
RenameNode(nodes, renamings, nodeName, ports) ==
    IF ports = <<>> THEN nodes
    ELSE RenameNode(RenameVisit(nodes, renamings, nodeName, Head(ports)),
                    renamings, nodeName, Tail(ports))

\* second loop, the nodes in order
RECURSIVE RenameNodes(_, _, _)
RenameNodes(nodes, renamings, order) ==
    IF order = <<>> THEN nodes
    ELSE RenameNodes(
            RenameNode(nodes, renamings, Head(order),
                       SetToSeq(DOMAIN nodes[Head(order)].conns)),
            renamings, Tail(order))

\* renameConnections(nodes) / rename_connections(nodes), nodes.items()
\* enumerating the store in the given order
renameConnections(nodes, order) ==
    RenameNodes(nodes, FlattenRenamings(nodes, order), order)

\* the keys whose place in the enumeration can change the result: those
\* with renamings and those holding an endpoint dict another key holds too
OrderMatters(nodes, k) ==
    \/ nodes[k].renamings # <<>>
    \/ \E p \in DOMAIN nodes[k].conns : \E k2 \in DOMAIN nodes \ {k} :
          \E p2 \in DOMAIN nodes[k2].conns :
              nodes[k2].conns[p2].obj = nodes[k].conns[p].obj

\* the enumerations of nodes.items(), up to the order of the other keys
ItemOrders(nodes) ==
    LET rel == {k \in DOMAIN nodes : OrderMatters(nodes, k)}
    IN {o \o SetToSeq(DOMAIN nodes \ rel) : o \in Perms(rel)}

\* the stores the rename pass is run on: every node has at most one
\* connection (possibly to an absent node) and at most one
\* renaming
MaxRenameNodes == 2
MaxPasses == 2
RenameNames == {nA, nB, nC, nD}
RenameKeys == {NameList[i] : i \in 1..MaxRenameNodes}
RenamingChoices ==
    {<<>>} \cup
    {(old :> [name |-> new, port |-> pt]) :
        old \in RenameNames, new \in RenameNames, pt \in {"None", "outAlpha"}}
ConnChoices(k) ==
    {<<>>} \cup
    {("in" :> Endpoint(t, "outColor", <<k, "in">>)) : t \in RenameNames \ {k}}
RenameStores(keys) ==
    {[k \in keys |->
        [NodeRecord(k, "alSurface", c[k]) EXCEPT !.renamings = r[k]]] :
        c \in {f \in [keys -> UNION {ConnChoices(k) : k \in keys}] :
                 \A k \in keys : f[k] \in ConnChoices(k)},
        r \in {f \in [keys -> RenamingChoices] :
                 \A k \in keys : \A old \in DOMAIN f[k] :
                    /\ f[k][old].name # old
                    \* no two renamings undo each other
                    /\ \A k2 \in keys :
                          f[k][old].name \in DOMAIN f[k2] =>
                              f[k2][f[k][old].name].name # old}}

\* renameConnections(nodes), called again on the store it left
RenamePass ==
    /\ mode = "rename"
    /\ Len(hist.after) < MaxPasses
    /\ store' = renameConnections(store, hist.order)
    /\ hist' = [hist EXCEPT !.after = Append(@, store')]
    /\ UNCHANGED <<mode, namesVars, pc, tree, pending, layout, run>>

InitRename ==
    /\ mode = "rename"
    /\ usedNames = <<>>
    /\ seeded = <<>>
    /\ issued = <<>>
    /\ pc = "rename"
    /\ store \in RenameStores(RenameKeys)
    /\ tree = <<>>
    /\ pending = {}
    /\ layout = <<>>
    /\ \E o \in ItemOrders(store) : hist = [order |-> o, before |-> store, after |-> <<>>]
    /\ run = <<>>

NextRename == RenamePass

SpecRename == InitRename /\ [][NextRename]_vars

(***************************************************************************)
(* Tree builder and layout                                                 *)
(***************************************************************************)
KATANA_NODE_WIDTH == 200
KATANA_SPACE_WIDTH == 60
KATANA_ROW_HEIGHT == 100

\* the name of the virtual root, 'root'
root == <<114, 111, 111, 116>>
\* "no branch found" (insertNode returned False)
NoBranch == <<>>

\* no node reads from any other
isConnectedNever(source, dest) == FALSE
\* isConnected(source, dest): dest has a connection naming source
isConnected(source, dest) ==
    \E p \in DOMAIN dest.conns : dest.conns[p].node = source

\* the root-level leaves node consumes become children of node
checkOrphanedNoAdoption(ch, nodes, node) == ch
\* the adopted leaves are not removed from the root level
checkOrphanedNoRemoval(ch, nodes, node) ==
    [ch EXCEPT ![node] = @ \o SelectSeq(ch[root],
                              LAMBDA leaf : isConnected(leaf, nodes[node]))]
checkOrphanedNodes(ch, nodes, node) ==
    LET adopted == SelectSeq(ch[root], LAMBDA leaf : isConnected(leaf, nodes[node]))
        kept == SelectSeq(ch[root], LAMBDA leaf : ~isConnected(leaf, nodes[node]))
    IN [ch EXCEPT ![node] = @ \o adopted, ![root] = kept]

\* the depth-first search of insertNode: the first branch, in pre-order,
\* whose NodeRecord has a connection pointing at node
RECURSIVE FindBranch(_, _, _, _)
RECURSIVE FindAmong(_, _, _, _)
FindBranch(ch, nodes, branch, node) ==
    IF branch \in DOMAIN nodes /\ isConnected(node, nodes[branch])
    THEN branch
    ELSE FindAmong(ch, nodes, ch[branch], node)
FindAmong(ch, nodes, leaves, node) ==
    IF leaves = <<>> THEN NoBranch
    ELSE LET b == FindBranch(ch, nodes, Head(leaves), node)
         IN IF b # NoBranch THEN b ELSE FindAmong(ch, nodes, Tail(leaves), node)

\* where insertNode appends node: the branch found, else the root (an orphan)
InsertAtRootOnly(ch, nodes, node) == root
InsertPlace(ch, nodes, node) ==
    LET b == FindBranch(ch, nodes, root, node)
    IN IF b = NoBranch THEN root ELSE b

insertNode(ch, nodes, node) ==
    LET at == InsertPlace(ch, nodes, node)
        adopted == checkOrphanedNodes((node :> <<>>) @@ ch, nodes, node)
    IN [adopted EXCEPT ![at] = Append(@, node)]

RECURSIVE calcTreeWidth(_, _)
RECURSIVE SumWidths(_, _)
\* widths summed without the space between the children
calcTreeWidthNoSpace(ch, branch) ==
    IF ch[branch] # <<>> THEN SumWidths(ch, ch[branch]) ELSE KATANA_NODE_WIDTH
calcTreeWidth(ch, branch) ==
    IF ch[branch] # <<>>
    THEN SumWidths(ch, ch[branch]) + (Len(ch[branch]) - 1) * KATANA_SPACE_WIDTH
    ELSE KATANA_NODE_WIDTH
SumWidths(ch, leaves) ==
    IF leaves = <<>> THEN 0
    ELSE calcTreeWidth(ch, Head(leaves)) + SumWidths(ch, Tail(leaves))

\* sorted(children, key=weight): a stable sort
RECURSIVE InsertSorted(_, _, _)
InsertSorted(sorted, leaf, wt) ==
    IF sorted = <<>> THEN <<leaf>>
    ELSE IF wt[leaf] < wt[Head(sorted)] THEN <<leaf>> \o sorted
         ELSE <<Head(sorted)>> \o InsertSorted(Tail(sorted), leaf, wt)
RECURSIVE SortedBranch(_, _)
\* the children in the order they were appended
UnsortedBranch(leaves, wt) == leaves
SortedBranch(leaves, wt) ==
    IF leaves = <<>> THEN <<>>
    ELSE InsertSorted(SortedBranch(Front(leaves), wt), Last(leaves), wt)

RECURSIVE calcTreePos(_, _, _, _)
RECURSIVE PlaceLeaves(_, _, _, _)
\* the children laid side by side without the space between them
PlaceLeavesNoSpace(ch, wt, leaves, pos) ==
    IF leaves = <<>> THEN <<>>
    ELSE LET w == calcTreeWidth(ch, Head(leaves))
         IN calcTreePos(ch, wt, Head(leaves), pos + (w \div 2)) @@
            PlaceLeaves(ch, wt, Tail(leaves), pos + w)
calcTreePos(ch, wt, branch, x) ==
    (branch :> x) @@
    (IF ch[branch] # <<>>
     THEN PlaceLeaves(ch, wt, SortedBranch(ch[branch], wt),
                      x - (calcTreeWidth(ch, branch) \div 2))
     ELSE <<>>)
PlaceLeaves(ch, wt, leaves, pos) ==
    IF leaves = <<>> THEN <<>>
    ELSE LET w == calcTreeWidth(ch, Head(leaves))
         IN calcTreePos(ch, wt, Head(leaves), pos + (w \div 2)) @@
            PlaceLeaves(ch, wt, Tail(leaves), pos + w + KATANA_SPACE_WIDTH)

\* the weight checkOrphanedNodes copies onto each tree node
TreeWeights(nodes) == [n \in DOMAIN nodes |-> nodes[n].weight]

\* calcTreeWidth(tree); calcTreePos(tree): width and x of every node
LayoutOf(ch, nodes) ==
    LET xs == calcTreePos(ch, TreeWeights(nodes) @@ (root :> 0), root, 0)
    IN [n \in DOMAIN xs |-> [width |-> calcTreeWidth(ch, n), x |-> xs[n]]]

\* the store keys buildTree inserts: the records that have a 'name'
TreeKeys(nodes) == {k \in DOMAIN nodes : nodes[k].named}

\* buildTree, one insertNode of its loop
InsertStep(node) ==
    /\ mode = "tree"
    /\ pc = "insert"
    /\ node \in pending
    /\ tree' = insertNode(tree, store, store[node].name)
    /\ pending' = pending \ {node}
    /\ UNCHANGED <<mode, namesVars, pc, store, layout, hist, run>>

\* buildTree, after the loop: calcTreeWidth(tree); calcTreePos(tree)
LayoutStep ==
    /\ mode = "tree"
    /\ pc = "insert"
    /\ pending = {}
    /\ layout' = LayoutOf(tree, store)
    /\ pc' = "built"
    /\ UNCHANGED <<mode, namesVars, store, tree, pending, hist, run>>

\* the node stores the tree builder is run on
MaxTreeNodes == 3
TreeNames == {NameList[i] : i \in 1..MaxTreeNodes}
WeightVals == {0, 10}

\* the local port a store of the tree builder uses for an input from target
PortFor(target) ==
    CASE target = nA -> "inA" [] target = nB -> "inB" [] target = nC -> "inC"
      [] target = nD -> "inD" [] target = nX -> "inX" [] target = nY -> "inY"
      [] OTHER -> "in"

\* the store of a connection graph: g[n] is the set of nodes n has an input from
GraphStore(g, wt) ==
    [n \in DOMAIN g |->
        [NodeRecord(n, "alSurface",
                    [p \in {PortFor(t) : t \in g[n]} |->
                        Endpoint(CHOOSE t \in g[n] : PortFor(t) = p, "outColor",
                                 <<n, p>>)])
         EXCEPT !.weight = wt[n]]]

\* the graph has no cycle: removing the nodes without input again and
\* again removes every node
RECURSIVE AcyclicOn(_, _)
AcyclicOn(g, S) ==
    LET free == {n \in S : g[n] \cap S = {}}
    IN IF S = {} THEN TRUE
       ELSE IF free = {} THEN FALSE
       ELSE AcyclicOn(g, S \ free)
Acyclic(g) == AcyclicOn(g, DOMAIN g)

TreeStores(names) ==
    UNION { { GraphStore(g, wt) :
                g \in {h \in [S -> SUBSET names] :
                         /\ \A n \in S : n \notin h[n]
                         /\ Acyclic(h)},
                wt \in [S -> WeightVals] }
            : S \in SUBSET names }

\* scenario A: A has no inputs, B has an input from A, C has an input from B
ScenarioA ==
    GraphStore((nA :> {}) @@ (nB :> {nA}) @@ (nC :> {nB}),
               [n \in {nA, nB, nC} |-> 0])
\* scenario B: X and Y both feed Z
ScenarioB ==
    GraphStore((nX :> {}) @@ (nY :> {}) @@ (nZ :> {nX, nY}),
               [n \in {nX, nY, nZ} |-> 0])

InitTree ==
    /\ mode = "tree"
    /\ usedNames = <<>>
    /\ seeded = <<>>
    /\ issued = <<>>
    /\ pc = "insert"
    /\ store \in TreeStores(TreeNames) \cup {ScenarioA, ScenarioB}
    /\ tree = (root :> <<>>)
    /\ pending = TreeKeys(store)
    /\ layout = <<>>
    /\ hist = <<>>
    /\ run = <<>>

NextTree ==
    \/ \E node \in pending : InsertStep(node)
    \/ LayoutStep

SpecTree == InitTree /\ [][NextTree]_vars

\* two consumers with one input each: X reads A, Y reads B
TwoChains(wt) ==
    GraphStore((nA :> {}) @@ (nB :> {}) @@ (nX :> {nA}) @@ (nY :> {nB}), wt)

\* buildTree on the stores of the tree builder and on the two chains, with
\* every choice of weights
InitRows ==
    /\ mode = "tree"
    /\ usedNames = <<>>
    /\ seeded = <<>>
    /\ issued = <<>>
    /\ pc = "insert"
    /\ store \in TreeStores(TreeNames) \cup
                   {TwoChains(wt) : wt \in [{nA, nB, nX, nY} -> WeightVals]}
    /\ tree = (root :> <<>>)
    /\ pending = TreeKeys(store)
    /\ layout = <<>>
    /\ hist = <<>>
    /\ run = <<>>

SpecRows == InitRows /\ [][NextTree]_vars

(***************************************************************************)
(* The Maya scene generateXML reads (cmds.nodeType, cmds.listConnections,  *)
(* cmds.getAttr): an input of the run                                      *)
(***************************************************************************)
\* literal names of the code: 'Mix', 'Empty', 'facingRatio',
\* 'flippedNormal', '_out'
strMix == <<77, 105, 120>>
strEmpty == <<69, 109, 112, 116, 121>>
strFacingRatio == <<102, 97, 99, 105, 110, 103, 82, 97, 116, 105, 111>>
strFlippedNormal == <<102, 108, 105, 112, 112, 101, 100, 78, 111, 114, 109, 97, 108>>
strOut == <<95, 111, 117, 116>>

\* the nodes of the scene: the shading engines 'g', 'k' (both on the
\* shader 's') and 'h' (no surface shader), the shaders 's' and 's_out', the
\* ramp 'r', the displacements 'd' and 'e' (no input), the bump 'b', the
\* samplerInfo 'i' and the file texture 'rMix'
mG == <<103>>
mK == <<107>>
mH == <<104>>
mS == <<115>>
mSOut == mS \o strOut
mR == <<114>>
mD == <<100>>
mE == <<101>>
mB == <<98>>
mI == <<105>>
mRMix == mR \o strMix
SceneNames == {mG, mK, mH, mS, mSOut, mR, mD, mE, mB, mI, mRMix}

\* the input plugs of the nodes of the scene
MayaPlugs == {"surfaceShader", "displacementShader", "normalCamera",
              "diffuseColor", "opacity", "displacement", "bumpValue",
              "colorEntryList[1].color", "emissionColor"}

\* a Maya node: its type, its incoming connections (local plug -> source
\* node and plug), for a ramp the size and indices of colorEntryList, for a
\* bump its bumpInterp
MayaNode(t, c) == [type |-> t, conns |-> c, size |-> 0, indices |-> <<>>, bumpInterp |-> 0]

Scene ==
    (mG :> MayaNode("shadingEngine",
                    ("surfaceShader" :> <<mS, "outColor">>) @@
                    ("displacementShader" :> <<mD, "displacement">>))) @@
    (mK :> MayaNode("shadingEngine", ("surfaceShader" :> <<mS, "outColor">>))) @@
    (mH :> MayaNode("shadingEngine", <<>>)) @@
    (mS :> MayaNode("alSurface", ("normalCamera" :> <<mB, "outNormal">>))) @@
    (mSOut :> MayaNode("alSurface",
                       ("diffuseColor" :> <<mR, "outColor">>) @@
                       ("opacity" :> <<mI, "flippedNormal">>) @@
                       ("emissionColor" :> <<mH, "message">>))) @@
    (mR :> [MayaNode("ramp",
                     ("colorEntryList[1].color" :> <<mRMix, "outColorR">>))
            EXCEPT !.size = 2, !.indices = <<0, 1>>]) @@
    (mD :> MayaNode("displacementShader",
                    ("displacement" :> <<mI, "facingRatio">>))) @@
    (mE :> MayaNode("displacementShader", <<>>)) @@
    (mB :> [MayaNode("bump2d", ("bumpValue" :> <<mRMix, "outAlpha">>))
            EXCEPT !.bumpInterp = 1]) @@
    (mI :> MayaNode("samplerInfo", <<>>)) @@
    (mRMix :> MayaNode("file", <<>>))

\* the keys of premap the scene uses
premap == {"shadingEngine", "displacementShader", "alSurface", "ramp",
           "bump2d", "samplerInfo"}

\* cmds.listConnections(nodeName, source=True, destination=False, ...) as
\* preprocessNode turns it into the connections of the node
SourceConnections(scene, nodeName) ==
    [connTo \in DOMAIN scene[nodeName].conns |->
        Endpoint(scene[nodeName].conns[connTo][1],
                 scene[nodeName].conns[connTo][2],
                 <<nodeName, connTo>>)]

\* cmds.listConnections(nodeName, source=False, destination=True, ...): the
\* plugs of nodeName that some node of the scene reads
DestinationPlugs(scene, nodeName) ==
    {scene[mp[1]].conns[mp[2]][2] :
        mp \in {x \in (DOMAIN scene) \X MayaPlugs :
                   /\ x[2] \in DOMAIN scene[x[1]].conns
                   /\ scene[x[1]].conns[x[2]][1] = nodeName}}

(***************************************************************************)
(* Preprocessing: preprocessNode and the preprocess hooks of premap        *)
(***************************************************************************)
\* premap[nodeType].get('type'), .get('postprocess'), .get('preprocess')
premapType(nodeType) ==
    IF nodeType = "shadingEngine" THEN "networkMaterial" ELSE nodeType
premapPostprocess(nodeType) == nodeType = "shadingEngine"
premapPreprocess(nodeType) ==
    nodeType \in {"shadingEngine", "displacementShader", "ramp", "bump2d",
                  "samplerInfo"}

\* if nodeType not in premap: return None
InPremapAlways(nodeType) == TRUE
InPremap(nodeType) == nodeType \in premap

\* what a hook leaves: the records it returns, the generator's list, and
\* whether it raised
HookResult(nodes, used) == [nodes |-> nodes, used |-> used, raised |-> FALSE]
HookRaised(used) == [nodes |-> <<>>, used |-> used, raised |-> TRUE]

\* a renaming {'name': ...} without 'originalPort'
RenameTo(name) == [name |-> name, port |-> "None"]

\* preprocessSampler: one utility record per supported plug that is read,
\* each renaming the samplerInfo node to itself
preprocessSampler(scene, node, used) ==
    LET plugs == DestinationPlugs(scene, node.name)
        facing == UniqueNameOf(strFacingRatio, SeqRange(used))
        used1 == IF "facingRatio" \in plugs THEN Append(used, facing) ELSE used
        flipped == UniqueNameOf(strFlippedNormal, SeqRange(used1))
        used2 == IF "flippedNormal" \in plugs THEN Append(used1, flipped) ELSE used1
        utility(name, type) ==
            (name :> [NodeRecord(name, type, <<>>)
                      EXCEPT !.renamings = (node.name :> RenameTo(name))])
    IN HookResult(
         (IF "facingRatio" \in plugs THEN utility(facing, "facingRatio") ELSE <<>>) @@
         (IF "flippedNormal" \in plugs THEN utility(flipped, "two_sided") ELSE <<>>),
         used2)

\* preprocessBump
preprocessBump(scene, node, used) ==
    HookResult(
        (node.name :>
            [node EXCEPT !.weight = 10,
                         !.type = IF scene[node.name].bumpInterp = 1
                                  THEN "spaceTransform" ELSE @]),
        used)

\* re.search('colorEntryList\[(\d+)\]', connectionName): the index, -1 for
\* no match
EntryIndex(connectionName) ==
    CASE connectionName = "colorEntryList[0].color" -> 0
      [] connectionName = "colorEntryList[1].color" -> 1
      [] OTHER -> -1

\* preprocessRamp
preprocessRamp(scene, node, used) ==
    LET nodeName == node.name
        entryPlugs == {c \in DOMAIN node.conns : EntryIndex(c) # -1}
        colorEntryList ==
            [i \in {EntryIndex(c) : c \in entryPlugs} |->
                node.conns[CHOOSE c \in entryPlugs : EntryIndex(c) = i]]
        size == scene[nodeName].size
        indices == scene[nodeName].indices
        emptyName == UniqueNameOf(strEmpty, SeqRange(used))
        sourceConnection == colorEntryList[CHOOSE i \in DOMAIN colorEntryList : TRUE]
        emptyNode ==
            [NodeRecord(emptyName, "", <<>>)
             EXCEPT !.named = FALSE,
                    !.renamings = (nodeName :> RenameTo(sourceConnection.node))]
        mixName == UniqueNameOf(nodeName \o strMix, SeqRange(used))
        input(k, port) ==
            IF indices[k] \in DOMAIN colorEntryList
            THEN (port :> colorEntryList[indices[k]]) ELSE <<>>
        mix ==
            [NodeRecord(mixName, "mix",
                        ("mix" :> Endpoint(nodeName, "None", <<mixName, "mix">>)) @@
                        input(1, "input1") @@ input(2, "input2"))
             EXCEPT !.renamings = (nodeName :> RenameTo(mixName))]
    IN IF size < 2 /\ DOMAIN colorEntryList # {}
       THEN IF size = 1
            THEN HookResult((emptyName :> emptyNode), Append(used, emptyName))
            ELSE HookResult(<<>>, used)
       ELSE IF Cardinality(DOMAIN colorEntryList) \in 1..2
            THEN IF Len(indices) < 2 THEN HookRaised(Append(used, mixName))
                 ELSE HookResult((mixName :> mix) @@
                                 (nodeName :> [node EXCEPT !.type = "rampFloat"]),
                                 Append(used, mixName))
            ELSE HookResult((nodeName :> node), used)

\* preprocessNetworkMaterial: the first connected of the surface and volume
\* plugs becomes arnoldSurface, displacementShader becomes arnoldDisplacement
SurfacePlugs == <<"aiSurfaceShader", "surfaceShader", "aiVolumeShader", "volumeShader">>
preprocessNetworkMaterial(scene, node, used) ==
    LET connected == SelectSeq(SurfacePlugs, LAMBDA i : i \in DOMAIN node.conns)
        newConnections ==
            (IF connected # <<>>
             THEN ("arnoldSurface" :> node.conns[Head(connected)]) ELSE <<>>) @@
            (IF "displacementShader" \in DOMAIN node.conns
             THEN ("arnoldDisplacement" :> node.conns["displacementShader"])
             ELSE <<>>)
    IN HookResult((node.name :> [node EXCEPT !.conns = newConnections]), used)

\* preprocessDisplacement: getOutConnection(connection) raises KeyError when
\* the node has no 'displacement' connection (connection is {}); otherwise
\* its result, a path 'node.out...', becomes the originalPort of 'input'
preprocessDisplacement(scene, node, used) ==
    IF "displacement" \notin DOMAIN node.conns
    THEN HookRaised(used)
    ELSE HookResult(
            (node.name :>
                [node EXCEPT !.weight = 20,
                             !.type = "range",
                             !.conns = ("input" :>
                                 Endpoint(node.conns["displacement"].node, "<path>",
                                          <<node.name, "input">>))]),
            used)

\* preprocessNode(nodeName): None for a type outside premap, else the
\* records of the hook, else the node itself
preprocessNode(scene, nodeName, used) ==
    LET nodeType == scene[nodeName].type
        node == [NodeRecord(nodeName, premapType(nodeType),
                            SourceConnections(scene, nodeName))
                 EXCEPT !.post = premapPostprocess(nodeType)]
    IN IF ~InPremap(nodeType) THEN HookResult(<<>>, used)
       ELSE IF ~premapPreprocess(nodeType)
            THEN HookResult((nodeName :> node), used)
            ELSE CASE nodeType = "shadingEngine" ->
                        preprocessNetworkMaterial(scene, node, used)
                   [] nodeType = "displacementShader" ->
                        preprocessDisplacement(scene, node, used)
                   [] nodeType = "ramp" -> preprocessRamp(scene, node, used)
                   [] nodeType = "bump2d" -> preprocessBump(scene, node, used)
                   [] OTHER -> preprocessSampler(scene, node, used)

(***************************************************************************)
(* Postprocessing, mapping, wiring and export                              *)
(***************************************************************************)
\* postprocessNetworkMaterial(node, allNodes): the records it returns and
\* allNodes as it leaves it (it pops the shader record)
postprocessNetworkMaterial(node, allNodes) ==
    LET none == [nodes |-> <<>>, allNodes |-> allNodes, raised |-> FALSE]
    IN IF "arnoldSurface" \notin DOMAIN node.conns THEN none
       ELSE IF node.conns["arnoldSurface"].node \notin DOMAIN allNodes THEN none
       ELSE LET shaderNode == allNodes[node.conns["arnoldSurface"].node]
                materialName == shaderNode.name
                shaderNodeName == materialName \o strOut
                hasBump == "normalCamera" \in DOMAIN shaderNode.conns
                shaderOut ==
                    [shaderNode EXCEPT
                        !.name = shaderNodeName,
                        !.conns = [p \in DOMAIN @ \ {"normalCamera"} |-> @[p]]]
                material ==
                    [node EXCEPT
                        !.name = materialName,
                        !.renamings = (materialName :> RenameTo(shaderNodeName)),
                        !.conns = IF hasBump
                                  THEN ("arnoldBump" :> shaderNode.conns["normalCamera"]) @@ @
                                  ELSE @]
            IN IF ~shaderNode.named
               THEN [nodes |-> <<>>, allNodes |-> allNodes, raised |-> TRUE]
               ELSE [nodes |-> (materialName :> material) @@
                               (shaderNodeName :> shaderOut),
                     allNodes |-> [k \in DOMAIN allNodes \ {materialName} |->
                                      allNodes[k]],
                     raised |-> FALSE]

\* the records a merge preprocessedNodes.update(result) replaces by a
\* different record
Overwritten(nodes, result) ==
    {nodes[k].id : k \in {x \in DOMAIN nodes \cap DOMAIN result :
                            nodes[x].id # result[x].id}}

\* the keys of mappings the scene uses
mappings == {"alSurface", "ramp", "rampFloat", "bump2d", "networkMaterial",
             "mix", "facingRatio", "two_sided", "spaceTransform", "range"}

\* the string entries of mappings[nodeType]: a connection of that name is
\* moved to the new name
MappedConnection(nodeType, connectionName) ==
    CASE nodeType = "spaceTransform" /\ connectionName = "bumpValue" -> "input"
      [] nodeType = "bump2d" /\ connectionName = "bumpValue" -> "bump_map"
      [] nodeType = "mix" /\ connectionName = "color1" -> "input2"
      [] nodeType = "mix" /\ connectionName = "color2" -> "input1"
      [] nodeType = "mix" /\ connectionName = "blender" -> "mix"
      [] OTHER -> connectionName

\* node['connections'] after iterateMappingRecursive
MappedConnections(node) ==
    [d \in {MappedConnection(node.type, c) : c \in DOMAIN node.conns} |->
        node.conns[CHOOSE c \in DOMAIN node.conns :
                      MappedConnection(node.type, c) = d]]

\* the template directories a run may find: the complete one, and one that
\* lacks mix.xml and whose documents have no port elements
TemplateDirs == {[files |-> mappings, ports |-> TRUE],
                 [files |-> mappings \ {"mix"}, ports |-> FALSE]}

\* processNode returns an element: the record has a name, its type is in
\* mappings and its template file exists
Processed(dir, node) ==
    node.named /\ node.type \in mappings /\ node.type \in dir.files

\* processNetworkMaterial removes the unconnected ports of the template;
\* xmlGroup.remove(None) raises when the template has no such port
ProcessRaises(dir, node) ==
    /\ Processed(dir, node)
    /\ node.type = "networkMaterial"
    /\ ~dir.ports
    /\ {"arnoldSurface", "arnoldBump", "arnoldDisplacement"} \ DOMAIN node.conns # {}

\* re.findall('^out(?:Color|Value)([RGBAXYZ])', originalPort), lower-cased;
\* "" for no match
OutComponent(port) ==
    CASE port = "outColorR" -> "r"
      [] port = "outValueX" -> "x"
      [] OTHER -> ""

\* getOutConnection(connection): 'node.out' or 'node.out.<component>'
getOutConnection(connection) ==
    [node |-> connection.node, component |-> OutComponent(connection.port)]

\* establishConnections, one element: connectXml sets the source of every
\* port the template has
connectXml(dir, node) ==
    IF dir.ports
    THEN [dest \in DOMAIN node.conns |-> getOutConnection(node.conns[dest])]
    ELSE <<>>

\* exportTree(branch, nodesXml): the elements in pre-order
RECURSIVE exportTree(_, _, _)
RECURSIVE ExportLeaves(_, _, _)
exportTree(ch, branch, nodesXml) ==
    (IF branch \in DOMAIN nodesXml THEN <<branch>> ELSE <<>>) \o
    ExportLeaves(ch, ch[branch], nodesXml)
ExportLeaves(ch, leaves, nodesXml) ==
    IF leaves = <<>> THEN <<>>
    ELSE exportTree(ch, Head(leaves), nodesXml) \o
         ExportLeaves(ch, Tail(leaves), nodesXml)

(***************************************************************************)
(* generateXML                                                             *)
(***************************************************************************)
\* cmds.listConnections(node + '.' + plug) for the first connected plug
FirstConnected(scene, node, plugs) ==
    LET connected == SelectSeq(plugs, LAMBDA p : p \in DOMAIN scene[node].conns)
    IN IF connected = <<>> THEN {} ELSE {scene[node].conns[Head(connected)][1]}

\* getAllShadingNodes(nodes): the nodes and everything upstream of them
RECURSIVE getAllShadingNodes(_, _)
getAllShadingNodes(scene, nodes) ==
    IF nodes = {} THEN {}
    ELSE nodes \cup
         getAllShadingNodes(scene,
            UNION {{scene[n].conns[p][1] : p \in DOMAIN scene[n].conns} : n \in nodes})

\* the nodeNames of the run: a shadingEngine selected alone is replaced by
\* its whole network
CollectNetwork(scene, selection) ==
    IF Cardinality(selection) = 1
       /\ \A n \in selection : scene[n].type = "shadingEngine"
    THEN LET shadingGroup == CHOOSE n \in selection : TRUE
         IN getAllShadingNodes(scene,
                FirstConnected(scene, shadingGroup, <<"aiSurfaceShader", "surfaceShader">>) \cup
                FirstConnected(scene, shadingGroup, <<"aiVolumeShader", "volumeShader">>) \cup
                FirstConnected(scene, shadingGroup, <<"displacementShader">>))
            \cup {shadingGroup}
    ELSE selection

MaxSel == 3
\* two shadingEngines on one shader, selected with the shader and with a
\* node that already has the name the shader is given
SharedShaderSelection == {mG, mK, mS, mSOut}
Selections ==
    {sel \in SUBSET SceneNames : Cardinality(sel) <= MaxSel}
        \cup {SharedShaderSelection}

\* generateXML, one turn of "for nodeName in nodeNames"
PreprocessStep(nodeName) ==
    /\ mode = "run"
    /\ pc = "preprocess"
    /\ nodeName \in run.todo
    /\ LET res == preprocessNode(Scene, nodeName, usedNames)
       IN /\ usedNames' = res.used
          /\ IF res.raised
             THEN /\ pc' = "raised"
                  /\ UNCHANGED <<store, run, hist>>
             ELSE /\ store' = res.nodes @@ store
                  /\ run' = [run EXCEPT
                        !.todo = @ \ {nodeName},
                        !.successList = IF res.nodes # <<>>
                                        THEN Append(@, nodeName) ELSE @]
                  /\ hist' = [hist EXCEPT
                        !.overwritten = @ \cup Overwritten(store, res.nodes)]
                  /\ pc' = IF run.todo = {nodeName} THEN "rename" ELSE "preprocess"
    /\ UNCHANGED <<mode, seeded, issued, tree, pending, layout>>

\* generateXML: renameConnections(preprocessedNodes), then buildTree starts
\* on a new tree (the previous one is not read again)
RenameStep ==
    /\ mode = "run"
    /\ pc = "rename"
    /\ \E order \in ItemOrders(store) :
          store' = renameConnections(store, order)
    /\ tree' = (root :> <<>>)
    /\ layout' = <<>>
    /\ pending' = TreeKeys(store')
    /\ pc' = "insert"
    /\ hist' = IF run.built = 0
               THEN [hist EXCEPT !.preprocessed = store, !.renamed = store']
               ELSE hist
    /\ UNCHANGED <<mode, namesVars, run>>

\* buildTree, one insertNode of its loop
BuildTreeInsert(node) ==
    /\ mode = "run"
    /\ pc = "insert"
    /\ node \in pending
    /\ tree' = insertNode(tree, store, store[node].name)
    /\ pending' = pending \ {node}
    /\ UNCHANGED <<mode, namesVars, pc, store, layout, hist, run>>

\* graphTree['children']: the branches the postprocess loop visits
RootLevel(graphTree) == graphTree[root]

\* buildTree returns: the first tree gives the nodes to postprocess, the
\* second is the one exported
BuildTreeDone ==
    /\ mode = "run"
    /\ pc = "insert"
    /\ pending = {}
    /\ layout' = LayoutOf(tree, store)
    /\ IF run.built = 0
       THEN /\ pc' = "post"
            /\ run' = [run EXCEPT !.built = 1, !.queue = RootLevel(tree)]
            /\ hist' = [hist EXCEPT !.roots =
                           {tree[root][i] : i \in 1..Len(tree[root])}]
       ELSE /\ pc' = "process"
            /\ run' = [run EXCEPT !.built = 2]
            /\ UNCHANGED hist
    /\ UNCHANGED <<mode, namesVars, store, tree, pending>>

\* generateXML, one turn of "for branch in graphTree['children']"
PostprocessStep ==
    /\ mode = "run"
    /\ pc = "post"
    /\ run.queue # <<>>
    /\ LET nodeName == Head(run.queue)
       IN IF nodeName \notin DOMAIN store
          THEN /\ pc' = "raised"
               /\ UNCHANGED <<store, run, hist>>
          ELSE LET node == store[nodeName]
                   popped == [k \in DOMAIN store \ {nodeName} |-> store[k]]
                   res == postprocessNetworkMaterial(node, popped)
               IN IF ~node.post
                  THEN /\ run' = [run EXCEPT !.queue = Tail(@)]
                       /\ UNCHANGED <<pc, store, hist>>
                  ELSE IF res.raised
                       THEN /\ pc' = "raised"
                            /\ store' = popped
                            /\ hist' = [hist EXCEPT
                                  !.hooked = @ \cup {[id |-> node.id, name |-> nodeName]}]
                            /\ UNCHANGED run
                       ELSE /\ store' = res.nodes @@ res.allNodes
                            /\ run' = [run EXCEPT !.queue = Tail(@),
                                                  !.shouldUpdateTree = TRUE]
                            /\ hist' = [hist EXCEPT
                                  !.popped = @ \cup {[id |-> node.id, name |-> nodeName]},
                                  !.hooked = @ \cup {[id |-> node.id, name |-> nodeName]},
                                  !.overwritten = @ \cup Overwritten(res.allNodes, res.nodes)]
                            /\ UNCHANGED pc
    /\ UNCHANGED <<mode, namesVars, tree, pending, layout>>

\* generateXML, after the postprocess loop: "if shouldUpdateTree"
PostprocessDone ==
    /\ mode = "run"
    /\ pc = "post"
    /\ run.queue = <<>>
    /\ pc' = IF run.shouldUpdateTree THEN "rename" ELSE "process"
    /\ UNCHANGED <<mode, namesVars, store, tree, pending, layout, hist, run>>

\* generateXML: the loop over processNode, which reads the template files
ProcessStep ==
    /\ mode = "run"
    /\ pc = "process"
    /\ \E dir \in TemplateDirs :
          IF \E k \in DOMAIN store : ProcessRaises(dir, store[k])
          THEN /\ pc' = "raised"
               /\ UNCHANGED <<store, run>>
          ELSE /\ store' = [k \in DOMAIN store |->
                               IF Processed(dir, store[k])
                               THEN [store[k] EXCEPT !.conns = MappedConnections(store[k])]
                               ELSE store[k]]
               /\ run' = [run EXCEPT
                     !.dir = dir,
                     !.nodesXml =
                        [k \in {x \in DOMAIN store : Processed(dir, store[x])} |->
                            [name |-> store[k].name, type |-> store[k].type,
                             id |-> store[k].id, ports |-> <<>>]]]
               /\ pc' = "wire"
    /\ UNCHANGED <<mode, namesVars, tree, pending, layout, hist>>

\* generateXML: establishConnections(preprocessedNodes, nodesXml)
WireStep ==
    /\ mode = "run"
    /\ pc = "wire"
    /\ run' = [run EXCEPT !.nodesXml =
                  [k \in DOMAIN @ |->
                      [@[k] EXCEPT !.ports = connectXml(run.dir, store[k])]]]
    /\ pc' = "export"
    /\ UNCHANGED <<mode, namesVars, store, tree, pending, layout, hist>>

\* generateXML: exportTree and the return value, '' when nothing was
\* preprocessed
ReturnValueAlways(successList) == "xml"
\* "if successList: return ET.tostring(xmlRoot) else: return ''"
ReturnValue(successList) == IF successList # <<>> THEN "xml" ELSE ""

ExportStep ==
    /\ mode = "run"
    /\ pc = "export"
    /\ run' = [run EXCEPT
                  !.doc = exportTree(tree, root, run.nodesXml),
                  !.result = ReturnValue(run.successList)]
    /\ pc' = "done"
    /\ UNCHANGED <<mode, namesVars, store, tree, pending, layout, hist>>

\* what the clipboard holds before copy() is called
OldClipboard == "old"
\* copy(), after generateXML has returned: "if xml: clipboard.setText(xml)"
CopyStep ==
    /\ mode = "run"
    /\ pc = "done"
    /\ run' = [run EXCEPT
                  !.clipboard = IF run.result # "" THEN run.result ELSE @,
                  !.log = IF run.result # "" THEN "copied" ELSE "nothing"]
    /\ pc' = "copied"
    /\ UNCHANGED <<mode, namesVars, store, tree, pending, layout, hist>>

InitRun ==
    /\ mode = "run"
    /\ \E selection \in Selections :
          LET nodeNames == CollectNetwork(Scene, selection)
          IN /\ usedNames = SetToSeq(nodeNames)
             /\ pc = IF nodeNames = {} THEN "rename" ELSE "preprocess"
             /\ run = [selection |-> selection, nodeNames |-> nodeNames,
                       todo |-> nodeNames, successList |-> <<>>,
                       dir |-> [files |-> {}, ports |-> FALSE],
                       built |-> 0, queue |-> <<>>, shouldUpdateTree |-> FALSE,
                       nodesXml |-> <<>>, doc |-> <<>>, result |-> "",
                       warnings |-> <<>>,
                       clipboard |-> OldClipboard, log |-> ""]
    /\ seeded = usedNames
    /\ issued = <<>>
    /\ store = <<>>
    /\ tree = <<>>
    /\ pending = {}
    /\ layout = <<>>
    /\ hist = [popped |-> {}, overwritten |-> {}, roots |-> {}, hooked |-> {},
               preprocessed |-> <<>>, renamed |-> <<>>]

NextRun ==
    \/ \E nodeName \in SceneNames : PreprocessStep(nodeName)
    \/ RenameStep
    \/ \E node \in pending : BuildTreeInsert(node)
    \/ BuildTreeDone
    \/ PostprocessStep
    \/ PostprocessDone
    \/ ProcessStep
    \/ WireStep
    \/ ExportStep
    \/ CopyStep

SpecRun == InitRun /\ [][NextRun]_vars

(***************************************************************************)
(* Python values of the mapping engine.  A value is a record: t is its     *)
(* Python type, v its content.  A float is counted in units of             *)
(* 1/FloatScale; a string is the sequence of its characters (a string can  *)
(* be indexed like a tuple).                                               *)
(***************************************************************************)
None == [t |-> "none", v |-> 0]
PyBool(b) == [t |-> "bool", v |-> b]
PyInt(i) == [t |-> "int", v |-> i]
PyFloat(u) == [t |-> "float", v |-> u]
PyStr(s) == [t |-> "str", v |-> s]
PyTuple(s) == [t |-> "tuple", v |-> s]
PyList(s) == [t |-> "list", v |-> s]

FloatScale == 10000
delta == FloatScale \div 1000

sZero == <<"0">>
sOne == <<"1">>
sTwo == <<"2">>
sZeroF == <<"0", ".", "0">>
sHalf == <<"0", ".", "5">>
sOneF == <<"1", ".", "0">>
sTwoF == <<"2", ".", "0">>
sTrue == <<"T", "r", "u", "e">>
sFalse == <<"F", "a", "l", "s", "e">>
sGgx == <<"g", "g", "x">>
sBeckmann == <<"b", "e", "c", "k", "m", "a", "n", "n">>

\* int('<literal>') and float('<literal>'): the literals Python parses
IntLiterals == (sZero :> 0) @@ (sOne :> 1) @@ (sTwo :> 2)
FloatLiterals ==
    (sZero :> 0) @@ (sOne :> FloatScale) @@ (sTwo :> 2 * FloatScale)
    @@ (sZeroF :> 0) @@ (sHalf :> FloatScale \div 2) @@ (sOneF :> FloatScale)
    @@ (sTwoF :> 2 * FloatScale)

Abs(i) == IF i < 0 THEN -i ELSE i
Trunc(u) == IF u >= 0 THEN u \div FloatScale ELSE -((-u) \div FloatScale)

\* float(x): TypeError for None and sequences, ValueError for other strings
FloatRaises(x) ==
    \/ x.t \in {"none", "tuple", "list"}
    \/ x.t = "str" /\ x.v \notin DOMAIN FloatLiterals
ToFloat(x) ==
    CASE x.t = "float" -> x.v
      [] x.t = "int" -> x.v * FloatScale
      [] x.t = "bool" -> IF x.v THEN FloatScale ELSE 0
      [] x.t = "str" -> FloatLiterals[x.v]

\* int(x)
IntRaises(x) ==
    \/ x.t \in {"none", "tuple", "list"}
    \/ x.t = "str" /\ x.v \notin DOMAIN IntLiterals
ToInt(x) ==
    CASE x.t = "int" -> x.v
      [] x.t = "float" -> Trunc(x.v)
      [] x.t = "bool" -> IF x.v THEN 1 ELSE 0
      [] x.t = "str" -> IntLiterals[x.v]

\* a == b of Python for values of the same type (False across types here)
PyEq(a, b) == a.t = b.t /\ a.v = b.v

\* (x == 'True') or int(x) == 1, for an x that is not a bool
IsTrueStr(x) == x.t = "str" /\ x.v = sTrue
TruthRaises(x) == x.t # "bool" /\ ~IsTrueStr(x) /\ IntRaises(x)
Truth(x) ==
    IF x.t = "bool" THEN x.v
    ELSE IsTrueStr(x) \/ ToInt(x) = 1

EqResult(b) == [raised |-> FALSE, value |-> b]
EqRaised == [raised |-> TRUE, value |-> FALSE]

\* b[i] (i counted from 1 here): IndexError past the end, TypeError when b
\* is not a sequence
IndexRaises(b, i) ==
    \/ b.t \notin {"tuple", "list", "str"}
    \/ i > Len(b.v)
Index(b, i) == IF b.t = "str" THEN PyStr(<<b.v[i]>>) ELSE b.v[i]

RECURSIVE equalAttributes(_, _)
RECURSIVE equalElements(_, _, _)
\* the loop "for i in range(len(a))" of equalAttributes, from index i on
equalElements(a, b, i) ==
    IF i > Len(a.v) THEN EqResult(TRUE)
    ELSE IF IndexRaises(b, i) THEN EqRaised
    ELSE LET r == equalAttributes(a.v[i], Index(b, i))
         IN  IF r.raised \/ ~r.value THEN r
             ELSE equalElements(a, b, i + 1)

\* a comparison without tolerance or coercion
equalScalarsExact(a, b) == EqResult(PyEq(a, b))
equalScalars(a, b) ==
    IF a.t = "float" \/ b.t = "float" THEN
        IF FloatRaises(a) \/ FloatRaises(b) THEN EqRaised
        ELSE EqResult(Abs(ToFloat(a) - ToFloat(b)) < delta)
    ELSE IF a.t = "bool" \/ b.t = "bool" THEN
        IF TruthRaises(a) \/ TruthRaises(b) THEN EqRaised
        ELSE EqResult(Truth(a) = Truth(b))
    ELSE IF a.t = "int" \/ b.t = "int" THEN
        IF IntRaises(a) \/ IntRaises(b) THEN EqRaised
        ELSE EqResult(ToInt(a) = ToInt(b))
    ELSE EqResult(PyEq(a, b))

equalAttributes(a, b) ==
    IF a.t \in {"list", "tuple"} THEN equalElements(a, b, 1)
    ELSE equalScalars(a, b)

(***************************************************************************)
(* equalAttributes applied to two values drawn from a bounded set          *)
(***************************************************************************)
MaxTupleLen == 2
Floats == {0, FloatScale, FloatScale + 5, FloatScale + 10, FloatScale + 1000}
Scalars ==
    {PyBool(b) : b \in BOOLEAN} \cup {PyInt(i) : i \in 0..2}
    \cup {PyFloat(u) : u \in Floats}
    \cup {PyStr(s) : s \in {sTrue, sFalse, sOne, sZero, sHalf}}
Elements ==
    {PyFloat(FloatScale), PyFloat(FloatScale + 5), PyFloat(FloatScale + 1000),
     PyInt(1), PyBool(TRUE)}
TupleValues ==
    {PyTuple(s) : s \in UNION {[1..n -> Elements] : n \in 0..MaxTupleLen}}
PyValues == Scalars \cup TupleValues

EqualCall ==
    /\ mode = "equal"
    /\ pc = "call"
    /\ LET r == equalAttributes(run.a, run.b)
       IN  /\ pc' = IF r.raised THEN "raised" ELSE "returned"
           /\ run' = [run EXCEPT !.result = r.value]
    /\ UNCHANGED <<mode, namesVars, store, tree, pending, layout, hist>>

InitEqual ==
    /\ mode = "equal"
    /\ usedNames = <<>>
    /\ seeded = <<>>
    /\ issued = <<>>
    /\ pc = "call"
    /\ store = <<>>
    /\ tree = <<>>
    /\ pending = {}
    /\ layout = <<>>
    /\ hist = <<>>
    /\ \E a \in PyValues, b \in PyValues \cup {None} :
           run = [a |-> a, b |-> b, result |-> FALSE]

NextEqual == EqualCall

SpecEqual == InitEqual /\ [][NextEqual]_vars

(***************************************************************************)
(* The mapping engine: iterateMappingRecursive                             *)
(***************************************************************************)
\* the values of a mapping dict
SpecNone == [kind |-> "none"]
SpecDict(d) == [kind |-> "dict", children |-> d]
SpecList(o) == [kind |-> "list", options |-> o]
SpecStr(k) == [kind |-> "str", dest |-> k]
SpecCall(f) == [kind |-> "callable", fn |-> f]
SpecTuple(k, inner) == [kind |-> "tuple", dest |-> k, inner |-> inner]
SpecColor(c) == [kind |-> "color", rgb |-> c]
SpecFlag(b) == [kind |-> "flag", value |-> b]

NoChildren == <<>>

\* lines 1410-1445: destKey, options, processField and paramChildren of
\* an entry
Resolve(paramKey, spec) ==
    LET inner == IF spec.kind = "tuple" THEN spec.inner ELSE spec
        first == IF spec.kind = "tuple" THEN spec.dest ELSE paramKey
    IN  [destKey |-> IF inner.kind = "str" THEN inner.dest ELSE first,
         options |-> IF inner.kind = "list" THEN inner.options ELSE <<>>,
         processField |-> IF inner.kind = "callable" THEN inner.fn ELSE "",
         children |-> IF inner.kind = "dict" THEN inner.children
                      ELSE NoChildren,
         rename |-> inner.kind = "str"]

\* the connection is left where it is
MoveConnectionNowhere(conns, paramKey, destKey) == conns
\* lines 1438-1441: the connection under paramKey moves to destKey
MoveConnection(conns, paramKey, destKey) ==
    IF paramKey \notin DOMAIN conns THEN conns
    ELSE [k \in (DOMAIN conns \cup {destKey}) \ {paramKey} |->
             IF k = destKey THEN conns[paramKey] ELSE conns[k]]

hasConnection(node, param) == param \in DOMAIN node.connections

PyOk(v) == [raised |-> FALSE, value |-> v]
PyRaise == [raised |-> TRUE, value |-> None]

\* a group_parameter of the template: its value node (value attribute, or
\* size and the sub-values i0, i1...), its type and its enable node
Slot(value, sub, type) ==
    [hasValue |-> TRUE, value |-> value, sub |-> sub, type |-> type,
     enable |-> PyStr(sZero)]
Falsy(x) == x.t = "none" \/ (x.t = "str" /\ x.v = <<>>)

\* lines 1460-1472: the default the slot holds
SubValue(type, s) ==
    IF type = "FloatAttr" THEN
        IF FloatRaises(PyStr(s)) THEN PyRaise
        ELSE PyOk(PyFloat(ToFloat(PyStr(s))))
    ELSE IF type = "IntAttr" THEN
        IF IntRaises(PyStr(s)) THEN PyRaise
        ELSE PyOk(PyInt(ToInt(PyStr(s))))
    ELSE PyOk(PyStr(s))
ReadValue(slot) ==
    IF ~Falsy(slot.value) \/ Len(slot.sub) = 0 THEN PyOk(slot.value)
    ELSE IF \E i \in 1..Len(slot.sub) : SubValue(slot.type, slot.sub[i]).raised
         THEN PyRaise
         ELSE PyOk(PyTuple([i \in 1..Len(slot.sub) |->
                               SubValue(slot.type, slot.sub[i]).value]))
Tuples(slot) == IF Falsy(slot.value) THEN Len(slot.sub) ELSE 0

\* line 1489: options[mayaValue]
EnumLookup(options, v) ==
    IF v.t \notin {"int", "bool"} THEN PyRaise
    ELSE LET i == ToInt(v)
         IN  IF i >= 0 /\ i < Len(options) THEN PyOk(PyStr(options[i + 1]))
             ELSE IF i < 0 /\ -i <= Len(options)
                  THEN PyOk(PyStr(options[Len(options) + i + 1]))
             ELSE PyRaise

\* min(value) and max(value) of a sequence of numbers: the first extremal
\* element
Extremal(value, sign) ==
    LET i == CHOOSE i \in 1..Len(value.v) :
                 /\ \A j \in 1..Len(value.v) :
                        sign * ToFloat(value.v[i]) <= sign * ToFloat(value.v[j])
                 /\ \A j \in 1..(i - 1) :
                        ToFloat(value.v[j]) # ToFloat(value.v[i])
    IN  value.v[i]
overrideClampParams(key, value) ==
    IF key \in {"min", "max"} THEN
        CASE value.t \in {"none", "bool", "int", "float"} -> PyRaise
          [] value.t \in {"tuple", "list"} /\ Len(value.v) = 0 -> PyRaise
          [] value.t \in {"tuple", "list"} /\ Len(value.v) > 0 ->
                 PyOk(Extremal(value, IF key = "min" THEN 1 ELSE -1))
    ELSE PyOk(value)
overrideHairParams(key, value) ==
    IF key \in {"dualDepth", "diffuseIndirectStrength"} THEN PyOk(PyInt(1))
    ELSE IF key \in {"extraSamplesDiffuse", "extraSamplesGlossy"}
         THEN PyOk(PyInt(2))
    ELSE PyOk(value)
overrideMaterialParams(key, value) ==
    IF key \in {"specular1Distribution", "specular2Distribution"}
    THEN PyOk(PyStr(sGgx))
    ELSE IF key \in {"specular1IndirectClamp", "specular2IndirectClamp"}
         THEN PyOk(PyInt(1))
    ELSE PyOk(value)
\* line 1491: processField(paramKey, mayaValue)
ProcessField(fn, key, value) ==
    CASE fn = "overrideClampParams" -> overrideClampParams(key, value)
      [] fn = "overrideHairParams" -> overrideHairParams(key, value)
      [] fn = "overrideMaterialParams" -> overrideMaterialParams(key, value)

\* str(x) of the values the engine writes
IntStr == (0 :> sZero) @@ (1 :> sOne) @@ (2 :> sTwo)
FloatStr ==
    (0 :> sZeroF) @@ ((FloatScale \div 2) :> sHalf) @@ (FloatScale :> sOneF)
    @@ ((2 * FloatScale) :> sTwoF)
StrOf(x) ==
    CASE x.t = "int" -> IntStr[x.v]
      [] x.t = "float" -> FloatStr[x.v]
      [] x.t = "bool" -> IF x.v THEN sTrue ELSE sFalse
      [] x.t = "str" -> x.v

\* lines 1495-1505: the slot once mayaValue has been written to it
WriteRaises(slot, mayaValue) ==
    /\ Tuples(slot) > 0
    /\ \/ mayaValue.t \notin {"tuple", "list", "str"}
       \/ Len(mayaValue.v) > Len(slot.sub)
WrittenNotEnabled(slot, mayaValue) ==
    IF Tuples(slot) > 0 THEN
        [slot EXCEPT !.sub =
            [i \in 1..Len(slot.sub) |->
                IF i <= Len(mayaValue.v) THEN StrOf(Index(mayaValue, i))
                ELSE slot.sub[i]]]
    ELSE [slot EXCEPT !.value = PyStr(StrOf(mayaValue))]
Written(slot, mayaValue) ==
    LET valued ==
            IF Tuples(slot) > 0 THEN
                [slot EXCEPT !.sub =
                    [i \in 1..Len(slot.sub) |->
                        IF i <= Len(mayaValue.v)
                        THEN StrOf(Index(mayaValue, i))
                        ELSE slot.sub[i]]]
            ELSE [slot EXCEPT !.value =
                    PyStr(StrOf(IF mayaValue.t = "bool"
                                THEN PyInt(ToInt(mayaValue))
                                ELSE mayaValue))]
    IN  IF slot.enable.t # "none"
        THEN [valued EXCEPT !.enable = PyStr(sOne)]
        ELSE valued

\* a comparison with the integer 0 only
IsZeroIntOnly(x) == x.t = "int" /\ x.v = 0
\* mayaValue == 0
IsZero(x) ==
    \/ x.t \in {"int", "float"} /\ x.v = 0
    \/ x.t = "bool" /\ ~x.v

\* lines 1473-1491: mayaValue of an entry whose slot holds the default value
SourceValue(node, paramKey) ==
    LET mayaValue == IF paramKey \in DOMAIN node.attributes
                     THEN node.attributes[paramKey] ELSE None
    IN  IF mayaValue.t = "list" /\ Len(mayaValue.v) = 1
        THEN mayaValue.v[1] ELSE mayaValue
MayaValue(node, paramKey, r, value) ==
    LET effective == IF hasConnection(node, r.destKey) THEN value
                     ELSE SourceValue(node, paramKey)
        chosen == IF r.options # <<>> /\ effective.t # "none"
                  THEN EnumLookup(r.options, effective)
                  ELSE PyOk(effective)
    IN  IF chosen.raised THEN PyRaise
        ELSE IF r.processField # ""
             THEN ProcessField(r.processField, paramKey, chosen.value)
        ELSE chosen

\* what one iteration of the loop of iterateMappingRecursive does to the
\* node and the element; children is the dict it then recurses into
EntryResult(node, xml, children) ==
    [raised |-> FALSE, node |-> node, xml |-> xml, children |-> children]
EntryRaised(node, xml) ==
    [raised |-> TRUE, node |-> node, xml |-> xml, children |-> NoChildren]

ApplySlot(node, xml, paramKey, r) ==
    LET slot == xml.slots[r.destKey]
        default == ReadValue(slot)
        maya == MayaValue(node, paramKey, r, default.value)
        same == equalAttributes(maya.value, default.value)
        written == [xml EXCEPT !.slots[r.destKey] = Written(slot, maya.value)]
        final == IF maya.value.t = "bool" /\ Tuples(slot) = 0
                 THEN PyInt(ToInt(maya.value)) ELSE maya.value
    IN  IF default.raised \/ maya.raised THEN EntryRaised(node, xml)
        ELSE IF maya.value.t = "none" THEN EntryResult(node, xml, r.children)
        ELSE IF same.raised THEN EntryRaised(node, xml)
        ELSE IF same.value THEN
            EntryResult(node, xml,
                        IF IsZero(maya.value)
                           /\ ~hasConnection(node, r.destKey)
                        THEN NoChildren ELSE r.children)
        ELSE IF WriteRaises(slot, maya.value) THEN EntryRaised(node, xml)
        ELSE EntryResult(node, written,
                         IF IsZero(final) /\ ~hasConnection(node, r.destKey)
                         THEN NoChildren ELSE r.children)

ApplyEntry(node, xml, paramKey, spec) ==
    IF spec.kind = "color" THEN
        EntryResult(node, [xml EXCEPT !.color = spec.rgb], NoChildren)
    ELSE
        LET r == Resolve(paramKey, spec)
            moved == IF r.rename
                     THEN [node EXCEPT !.connections =
                              MoveConnection(node.connections, paramKey,
                                             r.destKey)]
                     ELSE node
        IN  IF r.destKey \in DOMAIN xml.slots /\ xml.slots[r.destKey].hasValue
            THEN ApplySlot(moved, xml, paramKey, r)
            ELSE EntryResult(moved, xml, r.children)

(***************************************************************************)
(* Auto-passthrough: the mapping a node's attributes are applied with      *)
(* when the mapping carries the customMapping flag (the flag is declared   *)
(* by the mappings of src/renderer/prman)                                  *)
(***************************************************************************)
RECURSIVE ListedKeys(_)
ListedKeys(mappingDict) ==
    DOMAIN mappingDict
    \cup UNION {ListedKeys(Resolve(k, mappingDict[k]).children) :
                   k \in DOMAIN mappingDict}
PassthroughEnabled(mappingDict) ==
    /\ "customMapping" \in DOMAIN mappingDict
    /\ mappingDict["customMapping"].kind = "flag"
    /\ ~mappingDict["customMapping"].value
AutoPassthrough(mappingDict, attributes) ==
    IF PassthroughEnabled(mappingDict) THEN
        [k \in DOMAIN mappingDict
               \cup (DOMAIN attributes \ ListedKeys(mappingDict)) |->
            IF k \in DOMAIN mappingDict THEN mappingDict[k] ELSE SpecNone]
    ELSE mappingDict

(***************************************************************************)
(* processNode on one node: the mappings, the attributes cmds.getAttr      *)
(* returned, the node's connections and the template of its type           *)
(***************************************************************************)
half == FloatScale \div 2
Colour(u) == PyList(<<PyTuple(<<PyFloat(u), PyFloat(u), PyFloat(u)>>)>>)
Absent == [t |-> "absent", v |-> 0]
Present(f) == [k \in {x \in DOMAIN f : f[x].t # "absent"} |-> f[k]]
Without(f, keys) == [k \in DOMAIN f \ keys |-> f[k]]
ConnectedTo(keys) == [k \in keys |-> "file1"]
ColourSlot(s) == Slot(None, <<s, s, s>>, "FloatAttr")

mappingStandard ==
    ("customColor" :> SpecColor(<<"0.2", "0.36", "0.1">>))
    @@ ("Kd" :> SpecDict(("color" :> SpecStr("Kd_color"))
                         @@ ("Kb" :> SpecNone)))
    @@ ("Ks" :> SpecDict("specularDistribution" :>
                    SpecTuple("specular_distribution",
                              SpecList(<<sBeckmann, sGgx>>))))
mappingClamp ==
    ("input" :> SpecNone)
    @@ ("min" :> SpecCall("overrideClampParams"))
    @@ ("max" :> SpecCall("overrideClampParams"))
mappingHair ==
    ("dualDepth" :> SpecCall("overrideHairParams"))
    @@ ("uparam" :> SpecNone)
mappingPxrLayer ==
    ("customMapping" :> SpecFlag(FALSE))
    @@ ("customColor" :> SpecColor(<<"0.2", "0.36", "0.1">>))
MappingOf ==
    ("standard" :> mappingStandard) @@ ("clamp" :> mappingClamp)
    @@ ("alHair" :> mappingHair) @@ ("PxrLayer" :> mappingPxrLayer)

slotsStandard ==
    ("Kd" :> Slot(PyStr(sHalf), <<>>, "FloatAttr"))
    @@ ("Kd_color" :> ColourSlot(sOneF))
    @@ ("Kb" :> Slot(PyStr(sZeroF), <<>>, "FloatAttr"))
    @@ ("Ks" :> Slot(PyStr(sZeroF), <<>>, "FloatAttr"))
    @@ ("specular_distribution" :> Slot(PyStr(sBeckmann), <<>>, "StringAttr"))
slotsClamp ==
    ("input" :> ColourSlot(sZeroF))
    @@ ("min" :> Slot(PyStr(sZeroF), <<>>, "FloatAttr"))
    @@ ("max" :> Slot(PyStr(sOneF), <<>>, "FloatAttr"))
slotsHair ==
    ("dualDepth" :> Slot(PyStr(sZero), <<>>, "IntAttr"))
    @@ ("uparam" :> Slot(PyStr(<<>>), <<>>, "StringAttr"))
slotsPxrLayer ==
    ("diffuseGain" :> Slot(PyStr(sOneF), <<>>, "FloatAttr"))
    @@ ("diffuseColor" :> ColourSlot(sHalf))

MapInput(type, attributes, connected, missing, slots) ==
    [type |-> type,
     attributes |-> Present(attributes),
     connections |-> ConnectedTo(connected),
     slots |-> Without(slots, missing)]

StandardInputs ==
    {MapInput("standard",
              ("Kd" :> kd) @@ ("color" :> c) @@ ("Kb" :> kb) @@ ("Ks" :> ks)
              @@ ("specularDistribution" :> sd) @@ ("nodeState" :> PyInt(0)),
              connected, missing, slotsStandard) :
        kd \in {Absent, PyFloat(0), PyFloat(half)},
        c \in {Absent, Colour(FloatScale), Colour(half)},
        kb \in {Absent, PyFloat(half)},
        ks \in {PyFloat(0), PyFloat(half)},
        sd \in {Absent, PyInt(0), PyInt(1)},
        connected \in SUBSET {"Kd", "color"},
        missing \in SUBSET {"Kd", "Kd_color"}}
ClampInputs ==
    {MapInput("clamp",
              ("input" :> i) @@ ("min" :> lo) @@ ("max" :> hi),
              connected, {}, slotsClamp) :
        i \in {Absent, Colour(half)},
        lo \in {Absent, Colour(0),
                PyList(<<PyTuple(<<PyFloat(FloatScale), PyFloat(half),
                                   PyFloat(half)>>)>>)},
        hi \in {Absent, Colour(FloatScale)},
        connected \in SUBSET {"input"}}
HairInputs ==
    {MapInput("alHair", ("dualDepth" :> d) @@ ("uparam" :> u),
              {}, missing, slotsHair) :
        d \in {Absent, PyInt(0), PyInt(1)},
        u \in {Absent, PyStr(<<"u">>)},
        missing \in SUBSET {"dualDepth"}}
PxrLayerInputs ==
    {MapInput("PxrLayer",
              ("diffuseGain" :> g) @@ ("diffuseColor" :> c)
              @@ ("nodeState" :> PyInt(0)),
              connected, missing, slotsPxrLayer) :
        g \in {Absent, PyFloat(half), PyFloat(FloatScale)},
        c \in {Absent, Colour(half), Colour(FloatScale)},
        connected \in SUBSET {"diffuseGain"},
        missing \in SUBSET {"diffuseGain"}}
MapInputs(types) ==
    {i \in StandardInputs \cup ClampInputs \cup HairInputs \cup PxrLayerInputs :
        i.type \in types}

\* a call of iterateMappingRecursive: the dict it iterates and the keys its
\* loop has still to visit
Frame(mappingDict) == [dict |-> mappingDict, todo |-> DOMAIN mappingDict]
RECURSIVE Unwind(_)
Unwind(stack) ==
    IF stack # <<>> /\ Head(stack).todo = {} THEN Unwind(Tail(stack))
    ELSE stack

\* one iteration of the loop of iterateMappingRecursive, and the recursive
\* call it ends with when the entry has children
MapEntry(paramKey) ==
    /\ mode = "map"
    /\ pc = "map"
    /\ paramKey \in Head(run.stack).todo
    /\ LET top == Head(run.stack)
           res == ApplyEntry(run.node, run.xml, paramKey, top.dict[paramKey])
           rest == <<[top EXCEPT !.todo = @ \ {paramKey}]>> \o Tail(run.stack)
           stack == IF DOMAIN res.children # {}
                    THEN <<Frame(res.children)>> \o rest ELSE rest
       IN  /\ run' = [run EXCEPT !.node = res.node, !.xml = res.xml,
                                 !.stack = IF res.raised THEN run.stack
                                           ELSE Unwind(stack)]
           /\ pc' = IF res.raised THEN "raised"
                    ELSE IF Unwind(stack) = <<>> THEN "mapped" ELSE "map"
           /\ hist' = hist @@ (paramKey :>
                        [node |-> run.node, before |-> run.xml,
                         after |-> res.xml,
                         entry |-> Resolve(paramKey, top.dict[paramKey]),
                         descended |-> ~res.raised /\ DOMAIN res.children # {},
                         raised |-> res.raised])
    /\ UNCHANGED <<mode, namesVars, store, tree, pending, layout>>

InitMap ==
    /\ mode = "map"
    /\ usedNames = <<>>
    /\ seeded = <<>>
    /\ issued = <<>>
    /\ pc = "map"
    /\ store = <<>>
    /\ tree = <<>>
    /\ pending = {}
    /\ layout = <<>>
    /\ hist = <<>>
    /\ \E i \in MapInputs(DOMAIN MappingOf) :
           LET node == [type |-> i.type, attributes |-> i.attributes,
                        connections |-> i.connections]
               mappingDict == AutoPassthrough(MappingOf[i.type], i.attributes)
           IN  run = [node |-> node,
                      original |-> node,
                      template |-> i.slots,
                      mapping |-> mappingDict,
                      xml |-> [slots |-> i.slots, color |-> <<>>],
                      stack |-> <<Frame(mappingDict)>>]

NextMap == \E paramKey \in ListedKeys(run.mapping) : MapEntry(paramKey)

SpecMap == InitMap /\ [][NextMap]_vars

(***************************************************************************)
(* Connection Resolver: propagate_connection_weights                       *)
(***************************************************************************)
\* source.get('weight') is None or 0: nothing to propagate
NoWeight == 0
WeightedEndpoint(n, w) == [node |-> n, weight |-> w]
WeightedNode(c, w) == [conns |-> c, weight |-> w]

\* one turn of the inner loop: the weight of the endpoint is added to the
\* node it names; nodes[source['node']] raises KeyError for an absent node
PropagateResult(nodes) == [raised |-> FALSE, nodes |-> nodes]
PropagateRaised(nodes) == [raised |-> TRUE, nodes |-> nodes]
PropagateVisit(nodes, source) ==
    IF source.weight = NoWeight THEN PropagateResult(nodes)
    ELSE IF source.node \notin DOMAIN nodes THEN PropagateRaised(nodes)
    ELSE PropagateResult(
             [nodes EXCEPT ![source.node].weight = @ + source.weight])

\* the inner loop over node['connections'].values(), in the given order
RECURSIVE PropagateNode(_, _, _)
PropagateNode(nodes, nodeName, ports) ==
    IF ports = <<>> THEN PropagateResult(nodes)
    ELSE LET res == PropagateVisit(nodes, nodes[nodeName].conns[Head(ports)])
         IN  IF res.raised THEN res
             ELSE PropagateNode(res.nodes, nodeName, Tail(ports))

\* the stores the propagation is run on: as prman's preprocess_ramp leaves
\* them, the connection colors[i] of a ramp carries the weight i; an
\* endpoint may name a node that is not in the store
MaxWeightNodes == 2
WeightKeys == {NameList[i] : i \in 1..MaxWeightNodes}
WeightTargets == {NameList[i] : i \in 1..(MaxWeightNodes + 1)}
ColorsOf(i) == IF i = 0 THEN "colors[0]" ELSE "colors[1]"
ColorChoices(i) ==
    {<<>>} \cup {(ColorsOf(i) :> WeightedEndpoint(t, i)) : t \in WeightTargets}
WeightStores(keys) ==
    {[k \in keys |-> WeightedNode(c0[k] @@ c1[k], w[k])] :
        c0 \in [keys -> ColorChoices(0)],
        c1 \in [keys -> ColorChoices(1)],
        w \in [keys -> {0, 20}]}

\* propagate_connection_weights, one turn of the outer loop
PropagateStep(nodeName) ==
    /\ mode = "weights"
    /\ pc = "propagate"
    /\ nodeName \in pending
    /\ \E ports \in Perms(DOMAIN store[nodeName].conns) :
           LET res == PropagateNode(store, nodeName, ports)
           IN  /\ store' = res.nodes
               /\ pending' = pending \ {nodeName}
               /\ pc' = IF res.raised THEN "raised"
                        ELSE IF pending' = {} THEN "propagated"
                        ELSE "propagate"
    /\ UNCHANGED <<mode, namesVars, tree, layout, hist, run>>

InitWeights ==
    /\ mode = "weights"
    /\ usedNames = <<>>
    /\ seeded = <<>>
    /\ issued = <<>>
    /\ pc = "propagate"
    /\ store \in WeightStores(WeightKeys)
    /\ tree = <<>>
    /\ pending = DOMAIN store
    /\ layout = <<>>
    /\ hist = store
    /\ run = <<>>

NextWeights == \E nodeName \in pending : PropagateStep(nodeName)

SpecWeights == InitWeights /\ [][NextWeights]_vars

(***************************************************************************)
(* arnold: postprocess_network_material and its walk over the pass-through *)
(* nodes                                                                   *)
(***************************************************************************)
\* shader_node is None
NoNode == <<>>
PassThroughTypes == {"aov_write_rgb", "aov_write_float"}

\* all_nodes.get(name): the key of the record, NoNode for an absent name
GetNode(allNodes, name) == IF name \in DOMAIN allNodes THEN name ELSE NoNode

\* the condition of the while loop
IsPassThrough(allNodes, shaderNode) ==
    shaderNode # NoNode /\ allNodes[shaderNode].type \in PassThroughTypes

\* the body of the while loop: shader_node is replaced only when the node
\* has a 'beauty' connection
WalkOnce(allNodes, shaderNode) ==
    IF "beauty" \in DOMAIN allNodes[shaderNode].conns
    THEN GetNode(allNodes, allNodes[shaderNode].conns["beauty"].node)
    ELSE shaderNode

\* the rest of the hook, once the walk has ended on shader_node
FuseShader(node, allNodes, shaderNode) ==
    IF shaderNode = NoNode THEN <<>>
    ELSE LET shader == allNodes[shaderNode]
             materialName == shader.name
             shaderNodeName == materialName \o strOut
             hasBump == "normalCamera" \in DOMAIN shader.conns
         IN  (materialName :>
                 [node EXCEPT
                     !.name = materialName,
                     !.renamings = (materialName :> RenameTo(shaderNodeName)),
                     !.conns = IF hasBump
                               THEN ("arnoldBump" :> shader.conns["normalCamera"]) @@ @
                               ELSE @]) @@
             (shaderNodeName :>
                 [shader EXCEPT
                     !.name = shaderNodeName,
                     !.conns = [p \in DOMAIN @ \ {"normalCamera"} |-> @[p]]])

\* the stores the hook is called on: the material g and up to MaxWalkNodes
\* other records, each a pass-through node or a shader, whose 'beauty'
\* connection, if any, names one of them or a node that is not in the store
MaxWalkNodes == 2
WalkKeys == {NameList[i] : i \in 1..MaxWalkNodes}
WalkTargets == {NameList[i] : i \in 1..(MaxWalkNodes + 1)}
WalkTypes == PassThroughTypes \cup {"standard"}
WalkConns(port, k) ==
    {<<>>} \cup {(port :> Endpoint(t, "out", <<k, port>>)) : t \in WalkTargets}
WalkStores(keys) ==
    {[k \in keys |-> NodeRecord(k, ty[k], c[k])] :
        ty \in [keys -> WalkTypes],
        c \in {f \in [keys -> UNION {WalkConns("beauty", k) : k \in keys}] :
                  \A k \in keys : f[k] \in WalkConns("beauty", k)}}
\* the iterations of the walk the model follows
MaxWalkSteps == MaxWalkNodes + 2

\* "arnold_surface = ...; if arnold_surface: shader_node = all_nodes.get(...)"
WalkStart ==
    /\ mode = "walk"
    /\ pc = "start"
    /\ LET node == run.node
       IN  IF "arnold_surface" \in DOMAIN node.conns
           THEN /\ run' = [run EXCEPT
                      !.shaderNode =
                          GetNode(store, node.conns["arnold_surface"].node)]
                /\ pc' = "walk"
           ELSE /\ pc' = "returned"
                /\ UNCHANGED run
    /\ UNCHANGED <<mode, namesVars, store, tree, pending, layout, hist>>

\* one turn of the while loop
WalkStep ==
    /\ mode = "walk"
    /\ pc = "walk"
    /\ IsPassThrough(store, run.shaderNode)
    /\ run.steps < MaxWalkSteps
    /\ run' = [run EXCEPT !.shaderNode = WalkOnce(store, run.shaderNode),
                          !.steps = @ + 1]
    /\ UNCHANGED <<mode, namesVars, pc, store, tree, pending, layout, hist>>

\* the while condition is false: the hook fuses and returns
WalkEnd ==
    /\ mode = "walk"
    /\ pc = "walk"
    /\ ~IsPassThrough(store, run.shaderNode)
    /\ run' = [run EXCEPT
                  !.nodes = FuseShader(run.node, store, run.shaderNode)]
    /\ store' = [k \in DOMAIN store \ {run.shaderNode} |-> store[k]]
    /\ pc' = "returned"
    /\ UNCHANGED <<mode, namesVars, tree, pending, layout, hist>>

InitWalk ==
    /\ mode = "walk"
    /\ usedNames = <<>>
    /\ seeded = <<>>
    /\ issued = <<>>
    /\ pc = "start"
    /\ store \in WalkStores(WalkKeys)
    /\ \E c \in WalkConns("arnold_surface", mG) :
           run = [node |-> [NodeRecord(mG, "networkMaterial", c)
                               EXCEPT !.post = TRUE],
                  shaderNode |-> NoNode, steps |-> 0, nodes |-> <<>>]
    /\ tree = <<>>
    /\ pending = {}
    /\ layout = <<>>
    /\ hist = store

NextWalk == WalkStart \/ WalkStep \/ WalkEnd

SpecWalk == InitWalk /\ [][NextWalk]_vars

(***************************************************************************)
(* buildTree on stores whose connections may hold a self-reference or a    *)
(* cycle                                                                   *)
(***************************************************************************)
MaxCycleNodes == 3
CycleNames == {NameList[i] : i \in 1..MaxCycleNodes}
\* every graph over the names, self-references and cycles included
CyclicStores(names) ==
    {GraphStore(g, [n \in names |-> 0]) : g \in [names -> SUBSET names]}

InitCycles ==
    /\ mode = "tree"
    /\ usedNames = <<>>
    /\ seeded = <<>>
    /\ issued = <<>>
    /\ pc = "insert"
    /\ store \in CyclicStores(CycleNames)
    /\ tree = (root :> <<>>)
    /\ pending = TreeKeys(store)
    /\ layout = <<>>
    /\ hist = <<>>
    /\ run = <<>>

SpecCycles == InitCycles /\ [][NextTree]_vars

(***************************************************************************)
(* Claims                                                                  *)
(***************************************************************************)
IsUpper(c) == c >= chA /\ c <= chZ
IsPrefix(a, b) == Len(a) <= Len(b) /\ SubSeq(b, 1, Len(a)) = a

\* C2: within one run (since the last reset or seeding) the names the
\* unique-name generator has returned are pairwise distinct and distinct
\* from every seeded name, whatever names were requested.
C2_UniqueNames ==
    /\ \A i, j \in 1..Len(issued) : i # j => issued[i][2] # issued[j][2]
    /\ \A i \in 1..Len(issued) : issued[i][2] \notin SeqRange(seeded)
\* three requests, one name requested twice, one requested name being seeded
C2_Witness ==
    /\ Len(issued) = 3
    /\ \E i, j \in 1..3 : i # j /\ issued[i][1] = issued[j][1]
    /\ \E i \in 1..3 : issued[i][1] \in SeqRange(seeded)

\* C3: every returned name is the requested name or the requested name with
\* a suffix of upper-case letters appended (the requested name is a proper
\* prefix of the result), also for names ending in a digit or an upper-case
\* letter.
C3_SuffixAppended ==
    \A i \in 1..Len(issued) :
        LET req == issued[i][1]
            res == issued[i][2]
        IN \/ res = req
           \/ /\ IsPrefix(req, res)
              /\ Len(res) > Len(req)
              /\ \A k \in (Len(req) + 1)..Len(res) : IsUpper(res[k])

\* C4 as claimed: scenario A yields the chain root -> A -> B -> C.
C4_ChainRootABC ==
    (mode = "tree" /\ store = ScenarioA /\ pending = {}) =>
        /\ tree[root] = <<nA>>
        /\ tree[nA] = <<nB>>
        /\ tree[nB] = <<nC>>
        /\ tree[nC] = <<>>
\* C4 as amended: for every insertion order scenario A yields the single
\* chain root -> C -> B -> A: the consumer is the parent of its input, C is
\* the only root-level node, B is C's only child and A is B's only child.
C4_ChainRootCBA ==
    (mode = "tree" /\ store = ScenarioA /\ pending = {}) =>
        /\ tree[root] = <<nC>>
        /\ tree[nC] = <<nB>>
        /\ tree[nB] = <<nA>>
        /\ tree[nA] = <<>>
C4_Witness == mode = "tree" /\ store = ScenarioA /\ pc = "built"

\* C5: for every insertion order scenario B (X and Y both feed Z) yields a
\* tree whose only root-level node is Z and whose children of Z are exactly
\* X and Y, both leaves.
C5_ScenarioB ==
    (mode = "tree" /\ store = ScenarioB /\ pending = {}) =>
        /\ tree[root] = <<nZ>>
        /\ Len(tree[nZ]) = 2
        /\ SeqRange(tree[nZ]) = {nX, nY}
        /\ tree[nX] = <<>>
        /\ tree[nY] = <<>>
C5_Witness == mode = "tree" /\ store = ScenarioB /\ pc = "built"

\* the connections of a store: endpoint node and port of every local port
ConnectionsOf(nodes) ==
    [k \in DOMAIN nodes |->
        [p \in DOMAIN nodes[k].conns |->
            <<nodes[k].conns[p].node, nodes[k].conns[p].port>>]]

\* C1: the rename pass applied a second time, no renamings added in between,
\* leaves every node's connections as the first application left them.
C1_RenameIdempotent ==
    (mode = "rename" /\ Len(hist.after) >= 2) =>
        ConnectionsOf(hist.after[2]) = ConnectionsOf(hist.after[1])


\* the nodeNames whose type has no entry in premap
Unsupported(nodeNames) == {n \in nodeNames : Scene[n].type \notin premap}

\* the preprocessing loop run over the given names with the generator
\* seeded with the given list
RECURSIVE PreprocessAll(_, _)
PreprocessAll(names, st) ==
    IF names = <<>> \/ st.raised THEN st
    ELSE LET res == preprocessNode(Scene, Head(names), st.used)
         IN PreprocessAll(Tail(names),
                          [nodes |-> res.nodes @@ st.nodes, used |-> res.used,
                           raised |-> res.raised])

\* the run in which the unsupported nodes are skipped but stay selected
\* and reserved in the generator
Skipped ==
    PreprocessAll(SetToSeq(run.nodeNames \ Unsupported(run.nodeNames)),
                  [nodes |-> <<>>, used |-> SetToSeq(run.nodeNames), raised |-> FALSE])

\* the run in which the unsupported nodes have not been selected
NotSelected ==
    LET nodeNames == CollectNetwork(Scene, run.selection \ Unsupported(run.selection))
    IN PreprocessAll(SetToSeq(nodeNames \ Unsupported(nodeNames)),
                     [nodes |-> <<>>, used |-> SetToSeq(nodeNames), raised |-> FALSE])

\* the preprocessing loop has just ended
Preprocessed == mode = "run" /\ pc = "rename" /\ run.built = 0

\* the unsupported nodes are not in the store, not in successList, and not
\* in the elements and the document
UnsupportedOmitted ==
    \A n \in Unsupported(run.nodeNames) :
        /\ n \notin DOMAIN store
        /\ \A k \in DOMAIN store : store[k].id # n
        /\ n \notin SeqRange(run.successList)
        /\ \A k \in DOMAIN run.nodesXml : k # n /\ run.nodesXml[k].id # n
        /\ n \notin SeqRange(run.doc)

\* C6 (as stated): a selected node whose type is not in premap is never in
\* the store, in successList or in the document, and the preprocessing loop
\* leaves the store it would leave if the node had not been selected
C6_AsIfNotSelected ==
    mode = "run" =>
        /\ UnsupportedOmitted
        /\ Preprocessed => ~NotSelected.raised /\ store = NotSelected.nodes

\* C6 (amended): a selected node whose type is not in premap is never in
\* the store, in successList or in the document, preprocessing raises only
\* if it raises without that node, and the preprocessing loop leaves the
\* store it would leave if the node were skipped while staying selected and
\* reserved in the generator
C6_UnsupportedSkipped ==
    mode = "run" =>
        /\ UnsupportedOmitted
        /\ Preprocessed => ~Skipped.raised /\ store = Skipped.nodes
        /\ (pc = "raised" /\ run.todo # {}) => Skipped.raised

\* the run of the ramp 'r' selected with the file texture 'rMix' is done
C6_Witness ==
    /\ mode = "run"
    /\ pc = "done"
    /\ run.selection = {mR, mRMix}
    /\ run.doc # <<>>

\* C7: at the end of the wiring, a connection whose endpoint names a node
\* without element leaves its port without source and a warning is reported
C7_DanglingLeftUnconnected ==
    (mode = "run" /\ pc \in {"export", "done"}) =>
        \A k \in DOMAIN run.nodesXml : \A dest \in DOMAIN store[k].conns :
            store[k].conns[dest].node \notin DOMAIN run.nodesXml =>
                /\ dest \notin DOMAIN run.nodesXml[k].ports
                /\ run.warnings # <<>>

\* C8: no exception escapes generateXML
C8_NoExceptionEscapes == mode = "run" => pc # "raised"

\* C9: every named record is stored under its name, no two records have
\* the same name, and no merge into the store replaced a different record
C9_NamesUnique ==
    mode = "run" =>
        /\ \A k \in DOMAIN store : store[k].named => store[k].name = k
        /\ \A k1, k2 \in DOMAIN store :
              (k1 # k2 /\ store[k1].named /\ store[k2].named) =>
                  store[k1].name # store[k2].name
        /\ hist.overwritten = {}

\* C10: after the postprocess phase every record that was popped is in the
\* store again or its old name is renamed by a stored record
C10_RemovedOnlyWhenReplaced ==
    (mode = "run" /\ run.built > 0 /\ pc \notin {"post", "raised"}) =>
        \A e \in hist.popped :
            \/ \E k \in DOMAIN store : store[k].id = e.id
            \/ \E k \in DOMAIN store : e.name \in DOMAIN store[k].renamings

\* entries of the mapping the engine has visited, from its log
HasChildren(k) == DOMAIN hist[k].entry.children # {}
SlotFound(k) ==
    /\ hist[k].entry.destKey \in DOMAIN hist[k].before.slots
    /\ hist[k].before.slots[hist[k].entry.destKey].hasValue
Connected(k) == hasConnection(hist[k].node, hist[k].entry.destKey)
\* the value the node holds under the key of a visited entry (a list of one
\* element counts as its element) is the number 0 or False
ValueIsZero(k) ==
    LET held == IF k \in DOMAIN hist[k].node.attributes
                THEN hist[k].node.attributes[k] ELSE None
        value == IF held.t = "list" /\ Len(held.v) = 1 THEN held.v[1] ELSE held
    IN  \/ value.t \in {"int", "float"} /\ value.v = 0
        \/ value.t = "bool" /\ value.v = FALSE
ChildSlotsUntouched(k) ==
    \A c \in DOMAIN hist[k].entry.children :
        LET dest == Resolve(c, hist[k].entry.children[c]).destKey
        IN  /\ c \notin DOMAIN hist
            /\ dest \in DOMAIN run.template
                   => run.xml.slots[dest] = run.template[dest]

\* C11 as stated: the engine descends into the children of an entry exactly
\* when the entry's value is not 0 or its key has an active connection
C11_DescendUnlessZero ==
    mode = "map" =>
        \A k \in DOMAIN hist :
            HasChildren(k) =>
                (hist[k].descended <=>
                    (~ValueIsZero(k) \/ Connected(k)))

\* C11 amended: for an entry with children whose destination slot exists in
\* the template, the engine descends exactly when the value is not 0 or the
\* key has an active connection, and the children of a pruned entry are
\* never visited and their slots keep the template's content; when the
\* destination slot is missing the engine always descends
C11_DescendUnlessZeroInSlot ==
    mode = "map" =>
        \A k \in DOMAIN hist :
            HasChildren(k) =>
                /\ hist[k].descended <=>
                       \/ ~SlotFound(k)
                       \/ ~ValueIsZero(k)
                       \/ Connected(k)
                /\ ~hist[k].descended => ChildSlotsUntouched(k)
C11_Witness ==
    /\ mode = "map"
    /\ pc = "mapped"
    /\ "Kd" \in DOMAIN hist
    /\ SlotFound("Kd") /\ ~Connected("Kd") /\ ~hist["Kd"].descended
    /\ "color" \in DOMAIN run.node.attributes
    /\ "Ks" \in DOMAIN hist
    /\ hist["Ks"].descended

\* the destination key of a visited entry has a connection once the entry's
\* rename has moved the connection of its source key
DestConnected(k) ==
    \/ Connected(k)
    \/ hist[k].entry.rename /\ hasConnection(hist[k].node, k)

\* C12: an entry whose source attribute is missing and whose destination key
\* has no active connection is no override: the engine leaves the target
\* slot's value unchanged and does not mark it enabled, whatever the entry's
\* spec (identity, rename, enum, callable transform)
C12_MissingValueNoOverride ==
    mode = "map" =>
        \A k \in DOMAIN hist :
            (k \notin DOMAIN hist[k].node.attributes /\ ~DestConnected(k))
                => /\ ~hist[k].raised
                   /\ hist[k].after.slots = hist[k].before.slots

\* the attributes of the node that the hand-written mapping of its type
\* does not list
Unlisted ==
    DOMAIN run.node.attributes \ ListedKeys(MappingOf[run.node.type])
\* the slot of key k holds the value v and is enabled
HoldsValue(slot, v) ==
    /\ slot.enable = PyStr(sOne)
    /\ IF v.t \in {"tuple", "list"}
       THEN slot.sub = [i \in 1..Len(v.v) |-> StrOf(v.v[i])]
       ELSE slot.value = PyStr(StrOf(v))

Returned == mode = "equal" /\ pc = "returned"
Called == mode = "equal" /\ pc \in {"returned", "raised"}
BothOf(types) == run.a.t \in types /\ run.b.t \in types
\* a bool against an integer 0 or 1, or against the string 'True'
BoolAgainst(x, y) ==
    /\ x.t = "bool"
    /\ \/ y.t = "int" /\ y.v \in {0, 1}
       \/ y.t = "str" /\ y.v = sTrue
TruthOf(y) == IF y.t = "int" THEN y.v = 1 ELSE y.v = sTrue
\* two numbers (a bool counts as 1 or 0) agree within the tolerance
NumberOf(x) ==
    CASE x.t = "float" -> x.v
      [] x.t = "int" -> x.v * FloatScale
      [] x.t = "bool" -> IF x.v THEN FloatScale ELSE 0
Agree(x, y) == 1000 * Abs(NumberOf(x) - NumberOf(y)) < FloatScale

\* C14: equalAttributes returns true for two floats exactly when they differ
\* by less than 1e-3 (1.0 and 1.0005 are equal, 1.0 and 1.1 are not), treats
\* a bool and the integer 1/0 or the string 'True' as equal when their truth
\* values agree (True and 1 are equal), and compares tuples of equal length
\* element by element with the same rules
C14_TolerantEquality ==
    Called =>
        /\ BothOf({"float"}) =>
               /\ pc = "returned"
               /\ run.result <=> 1000 * Abs(run.a.v - run.b.v) < FloatScale
        /\ (run.a = PyFloat(FloatScale) /\ run.b = PyFloat(FloatScale + 5))
               => Returned /\ run.result
        /\ (run.a = PyFloat(FloatScale) /\ run.b = PyFloat(FloatScale + 1000))
               => Returned /\ ~run.result
        /\ BoolAgainst(run.a, run.b) =>
               Returned /\ (run.result <=> (run.a.v <=> TruthOf(run.b)))
        /\ BoolAgainst(run.b, run.a) =>
               Returned /\ (run.result <=> (run.b.v <=> TruthOf(run.a)))
        /\ (BothOf({"tuple"}) /\ Len(run.a.v) = Len(run.b.v)) =>
               /\ pc = "returned"
               /\ run.result <=>
                      \A i \in 1..Len(run.a.v) :
                          Agree(run.a.v[i], run.b.v[i])
C14_Witness ==
    /\ Returned
    /\ run.a = PyTuple(<<PyFloat(FloatScale), PyBool(TRUE)>>)
    /\ run.b = PyTuple(<<PyFloat(FloatScale + 5), PyInt(1)>>)
    /\ run.result

\* the nodes at root level of the first tree
FirstRoots == hist.roots
\* the registry entry of the Maya node a record was made from declares a
\* postprocess hook
DeclaresPostprocess(id) ==
    id \in DOMAIN Scene /\ premapPostprocess(Scene[id].type)

\* C16: in one run a postprocess hook is invoked at most once per node, only
\* after the first tree build, only for a node at root level of the first
\* tree and only for a node whose registry entry declares the hook; a node
\* with a postprocess hook that is not at root level of the first tree is
\* never postprocessed
C16_PostprocessOncePerRoot ==
    mode = "run" =>
        /\ hist.hooked # {} => run.built >= 1
        /\ \A h \in hist.hooked :
               /\ h.name \in FirstRoots
               /\ DeclaresPostprocess(h.id)
        /\ \A h1, h2 \in hist.hooked :
               (h1.name = h2.name \/ h1.id = h2.id) => h1 = h2
        /\ \A k \in DOMAIN store :
               (run.built >= 1 /\ store[k].post /\ k = store[k].id
                /\ k \notin FirstRoots)
                   => \A h \in hist.hooked : h.id # k

\* C17: at every branch the children are placed left to right in ascending
\* order of their NodeRecord weight (no weight counts as 0), children of
\* equal weight in the order in which they became children of the branch:
\* a sibling of smaller weight, or of equal weight and appended earlier, has
\* the smaller x
C17_SiblingsByWeight ==
    (mode = "tree" /\ pc = "built") =>
        \A b \in DOMAIN tree :
            \A i, j \in 1..Len(tree[b]) :
                LET s == tree[b][i]
                    t == tree[b][j]
                IN  (\/ store[s].weight < store[t].weight
                     \/ store[s].weight = store[t].weight /\ i < j)
                        => layout[s].x < layout[t].x
C17_Witness ==
    /\ mode = "tree"
    /\ pc = "built"
    /\ \E b \in DOMAIN tree :
           /\ Len(tree[b]) = 3
           /\ store[tree[b][1]].weight > store[tree[b][2]].weight
           /\ store[tree[b][2]].weight = store[tree[b][3]].weight
           /\ layout[tree[b][2]].x < layout[tree[b][3]].x
           /\ layout[tree[b][3]].x < layout[tree[b][1]].x

\* the widths of the children of a branch, summed
RECURSIVE WidthSum(_)
WidthSum(leaves) ==
    IF leaves = <<>> THEN 0 ELSE layout[Head(leaves)].width + WidthSum(Tail(leaves))
\* twice the left and right edges of the extent of a node
LeftEdge2(n) == 2 * layout[n].x - layout[n].width
RightEdge2(n) == 2 * layout[n].x + layout[n].width
LeftmostEdge2(leaves) ==
    CHOOSE e \in {LeftEdge2(c) : c \in SeqRange(leaves)} :
        \A c \in SeqRange(leaves) : e <= LeftEdge2(c)
RightmostEdge2(leaves) ==
    CHOOSE e \in {RightEdge2(c) : c \in SeqRange(leaves)} :
        \A c \in SeqRange(leaves) : e >= RightEdge2(c)

\* C18: in every tree buildTree returns a leaf has width 200, an internal
\* node has the width of its children plus 60 for each gap between adjacent
\* children, the virtual root has x = 0, and the x of every internal node is
\* the midpoint of the span from the left edge of its leftmost child to the
\* right edge of its rightmost child
C18_WidthsAndCentring ==
    (mode = "tree" /\ pc = "built") =>
        /\ layout[root].x = 0
        /\ \A n \in DOMAIN tree :
               IF tree[n] = <<>> THEN layout[n].width = 200
               ELSE /\ layout[n].width =
                           WidthSum(tree[n]) + 60 * (Len(tree[n]) - 1)
                    /\ 4 * layout[n].x =
                           LeftmostEdge2(tree[n]) + RightmostEdge2(tree[n])
C18_Witness ==
    /\ mode = "tree"
    /\ pc = "built"
    /\ layout[root].width = 460
    /\ \E n \in DOMAIN tree \ {root} :
           /\ tree[n] # <<>>
           /\ layout[n].x # 0

\* the node under key k holds a connection whose endpoint names k itself
SelfLoops(nodes) ==
    {<<k, p>> \in (DOMAIN nodes) \X
                  UNION {DOMAIN nodes[n].conns : n \in DOMAIN nodes} :
        p \in DOMAIN nodes[k].conns /\ nodes[k].conns[p].node = k}

\* C19: the rename pass never rewrites an endpoint so that it names the node
\* holding the connection: every connection that names its own holder after
\* the pass did so before it, hence a store without self-connections has
\* none after the pass
C19_NoSelfLoopCreated ==
    [][(mode = "run" /\ pc = "rename") =>
           /\ SelfLoops(store') \subseteq SelfLoops(store)
           /\ SelfLoops(store) = {} => SelfLoops(store') = {}]_vars
\* the mix node split off the ramp r keeps its 'mix' input on the ramp,
\* although the pass renames r to the mix node
C19_Witness ==
    /\ mode = "run"
    /\ pc = "insert"
    /\ mR \in DOMAIN store
    /\ \E k \in DOMAIN store :
           /\ mR \in DOMAIN store[k].renamings
           /\ store[k].renamings[mR].name = k
           /\ store[k].conns["mix"].node = mR
           /\ \E k2 \in DOMAIN store \ {k} :
                  \E p \in DOMAIN store[k2].conns :
                      store[k2].conns[p].node = k

\* the endpoints of the store that name a node the store does not hold
Dangling(nodes) ==
    {<<k, p>> \in (DOMAIN nodes) \X {ColorsOf(0), ColorsOf(1)} :
        p \in DOMAIN nodes[k].conns /\ nodes[k].conns[p].node \notin DOMAIN nodes}

\* C20: an endpoint naming a node absent from the store never makes a
\* Connection Resolver operation fail: weight propagation, also for an
\* endpoint that carries a weight, does not raise, and once it is over every
\* node of the store has received the weights of the endpoints naming it
C20_DanglingNeverFails ==
    mode = "weights" =>
        /\ pc # "raised"
        /\ pc = "propagated" =>
               \A t \in DOMAIN store :
                   \A k \in DOMAIN hist :
                       (ColorsOf(1) \in DOMAIN hist[k].conns
                        /\ hist[k].conns[ColorsOf(1)].node = t)
                           => store[t].weight > hist[t].weight

C22_WalkTerminates ==
    mode = "walk" => run.steps <= Cardinality(DOMAIN hist)

\* the connection graph of a store: from every key to the keys its
\* connection endpoints name
ConnectionGraph(nodes) ==
    [k \in DOMAIN nodes |->
        {nodes[k].conns[p].node : p \in DOMAIN nodes[k].conns} \cap DOMAIN nodes]

\* C23: if the connection graph of the store is acyclic after preprocessing,
\* the graph given to the second tree build (after rename pass 1,
\* postprocessing and rename pass 2) is acyclic, and so is the graph given
\* to the first build
C23_AcyclicityPreserved ==
    (mode = "run" /\ pc = "insert" /\ Acyclic(ConnectionGraph(hist.preprocessed)))
        => Acyclic(ConnectionGraph(store))

\* the store the postprocess loop started on (after rename pass 1), and
\* the record of that store a record of the present store was made from
BeforePost == hist.renamed
Origin(rec) == CHOOSE k \in DOMAIN BeforePost : BeforePost[k].id = rec.id
HasOrigin(rec) == \E k \in DOMAIN BeforePost : BeforePost[k].id = rec.id
\* a root-level node M that was postprocessed, whose surface connection
\* named a shader S of the store, when no node was named S_out and S
\* recorded no renamings
Fused(M, S) ==
    /\ [id |-> M, name |-> M] \in hist.hooked
    /\ M \in FirstRoots
    /\ M \in DOMAIN BeforePost
    /\ "arnoldSurface" \in DOMAIN BeforePost[M].conns
    /\ BeforePost[M].conns["arnoldSurface"].node = S
    /\ S \in DOMAIN BeforePost
    /\ (S \o strOut) \notin DOMAIN BeforePost
    /\ BeforePost[S].renamings = <<>>
FusedRight(M, S) ==
    LET out == S \o strOut
        shader == BeforePost[S]
    IN  /\ out \in DOMAIN store
        /\ store[out].id = shader.id /\ store[out].name = out
        /\ S \in DOMAIN store
        /\ store[S].id = M /\ store[S].name = S
        /\ M \notin DOMAIN store
        /\ store[S].conns["arnoldSurface"].node = out
        /\ "normalCamera" \in DOMAIN shader.conns =>
               /\ "arnoldBump" \in DOMAIN store[S].conns
               /\ store[S].conns["arnoldBump"].node = shader.conns["normalCamera"].node
               /\ "normalCamera" \notin DOMAIN store[out].conns
        /\ DOMAIN store[out].conns = DOMAIN shader.conns \ {"normalCamera"}
        /\ \A p \in DOMAIN store[out].conns :
               store[out].conns[p].node = shader.conns[p].node
        /\ \A k \in DOMAIN store \ {S, out} :
               HasOrigin(store[k]) =>
                   LET old == BeforePost[Origin(store[k])]
                   IN  /\ DOMAIN store[k].conns = DOMAIN old.conns
                       /\ \A p \in DOMAIN old.conns :
                              store[k].conns[p].node =
                                  IF old.conns[p].node = S THEN out
                                  ELSE old.conns[p].node

\* C24: after the postprocessing of a root-level shadingEngine M whose
\* surface connection names a shader S of the store (no node named S_out,
\* no renamings recorded by S) and rename pass 2, the store holds the shader
\* under S_out and the material under S, M is no key, the material's surface
\* connection names S_out, every other endpoint that named S names S_out, a
\* 'normalCamera' connection of the shader is the material's 'arnoldBump',
\* and every other connection is unchanged
C24_PostprocessEffect ==
    (mode = "run" /\ pc = "insert" /\ run.built = 1) =>
        \A M \in DOMAIN BeforePost :
            \A S \in DOMAIN BeforePost :
                Fused(M, S) => FusedRight(M, S)

\* the rename entries <<source key, destination key>> of a mapping, nested
\* ones included
RECURSIVE RenameEntries(_)
RenameEntries(mappingDict) ==
    {<<k, mappingDict[k].dest>> :
        k \in {x \in DOMAIN mappingDict : mappingDict[x].kind = "str"}}
    \cup UNION {RenameEntries(Resolve(k, mappingDict[k]).children) :
                   k \in {x \in DOMAIN mappingDict :
                             mappingDict[x].kind \in {"dict", "tuple"}}}
WasConnected(paramKey) == paramKey \in DOMAIN run.original.connections
StoredUnder(paramKey, destKey) ==
    /\ destKey \in DOMAIN run.node.connections
    /\ run.node.connections[destKey] = run.original.connections[paramKey]
    /\ paramKey \notin DOMAIN run.node.connections

\* C25 as stated: after the mapping of a node every connection whose port
\* is the source key of a rename entry anywhere in the mapping is stored
\* under the destination key and no longer under the source key
C25_ConnectionsRenamed ==
    (mode = "map" /\ pc = "mapped") =>
        \A e \in RenameEntries(run.mapping) :
            WasConnected(e[1]) => StoredUnder(e[1], e[2])

\* C25 amended: a connection on the source key of a rename entry is stored
\* under the destination key and no longer under the source key when the
\* engine has visited the entry; an entry nested in a group the engine did
\* not descend into is not visited and its connection stays under the
\* source key
C25_VisitedConnectionsRenamed ==
    (mode = "map" /\ pc = "mapped") =>
        \A e \in RenameEntries(run.mapping) :
            WasConnected(e[1]) =>
                IF e[1] \in DOMAIN hist
                THEN StoredUnder(e[1], e[2])
                ELSE /\ e[1] \in DOMAIN run.node.connections
                     /\ e[2] \notin DOMAIN run.node.connections
C25_Witness ==
    /\ mode = "map"
    /\ pc = "mapped"
    /\ WasConnected("color")
    /\ "Kd" \in DOMAIN hist
    /\ hist["Kd"].descended
    /\ StoredUnder("color", "Kd_color")

\* the places <<branch, index>> of a tree where a node is a child, and the
\* nodes reached from a branch in at most d steps
PlacesOf(n) ==
    {pl \in UNION {{<<b, i>> : i \in 1..Len(tree[b])} : b \in DOMAIN tree} :
        tree[pl[1]][pl[2]] = n}
RECURSIVE ReachedWithin(_, _)
ReachedWithin(b, d) ==
    IF d = 0 THEN {}
    ELSE SeqRange(tree[b])
         \cup UNION {ReachedWithin(tree[b][i], d - 1) : i \in 1..Len(tree[b])}
Consumers(n) == {k \in TreeKeys(store) : isConnected(n, store[k])}

\* C26: for every acyclic store and every insertion order the tree of
\* buildTree holds every named NodeRecord exactly once, reachable from the
\* virtual root, and every node that is not at root level is the child of
\* a node whose NodeRecord has a connection endpoint naming it
C26_EveryNodeOnce ==
    (mode = "tree" /\ pending = {}) =>
        /\ \A n \in TreeKeys(store) : Cardinality(PlacesOf(n)) = 1
        /\ ReachedWithin(root, Cardinality(DOMAIN store)) = TreeKeys(store)
        /\ \A b \in DOMAIN tree \ {root} :
               \A i \in 1..Len(tree[b]) :
                   \E p \in DOMAIN store[b].conns :
                       store[b].conns[p].node = tree[b][i]
C26_Witness ==
    /\ mode = "tree"
    /\ pc = "built"
    /\ DOMAIN store = {nA, nB, nC}
    /\ Consumers(nA) = {nB, nC}
    /\ Consumers(nB) = {nC}
    /\ tree[root] = <<nC>>
    /\ tree[nC] = <<nB>>
    /\ tree[nB] = <<nA>>

\* C27: for every acyclic store and every insertion order, once every node
\* is inserted a node is a direct child of the virtual root exactly when no
\* named NodeRecord of the store has a connection endpoint naming it
C27_RootLevelIffUnconsumed ==
    (mode = "tree" /\ pending = {}) =>
        \A n \in TreeKeys(store) :
            (n \in SeqRange(tree[root])) <=>
                ~\E k \in DOMAIN store :
                     \E p \in DOMAIN store[k].conns : store[k].conns[p].node = n
C27_Witness ==
    /\ mode = "tree"
    /\ pc = "built"
    /\ DOMAIN store = {nA, nB, nC}
    /\ Consumers(nA) = {nC}
    /\ Consumers(nB) = {}
    /\ Consumers(nC) = {}
    /\ SeqRange(tree[root]) = {nB, nC}
    /\ tree[nC] = <<nA>>

\* the nodes a walk from the root meets, each as often as it meets it, down
\* to d levels: the walk is finite when no level below the last is reached
RECURSIVE WalkLength(_, _)
RECURSIVE WalkLengths(_, _)
WalkLength(b, d) ==
    IF d = 0 THEN 1 ELSE 1 + WalkLengths(tree[b], d - 1)
WalkLengths(leaves, d) ==
    IF leaves = <<>> THEN 0
    ELSE WalkLength(Head(leaves), d) + WalkLengths(Tail(leaves), d)
\* the recursive walks of insertNode, calcTreeWidth and calcTreePos start at
\* the root: they visit every node below the root once, at most one node
\* per NodeRecord
RootWalkFinite ==
    LET n == Cardinality(DOMAIN store)
    IN  /\ WalkLength(root, n + 1) = WalkLength(root, n)
        /\ WalkLength(root, n) <= n + 1

\* C28: buildTree terminates for every store and every insertion order,
\* stores with a self-reference or a cycle included: at every step of the
\* insertion loop every walk from the root is finite, the loop is at an
\* insertion or at its end until the positions are computed, and every
\* step takes a node off the nodes still to insert or is the final width
\* and position computation
C28_BuildTreeTerminates ==
    /\ [](mode = "tree" =>
             /\ RootWalkFinite
             /\ pc \in {"insert", "built"}
             /\ pc = "built" => pending = {} /\ DOMAIN layout # {})
    /\ [][mode = "tree" =>
             \/ Cardinality(pending') < Cardinality(pending)
             \/ pending = {} /\ pc = "insert" /\ pc' = "built"]_vars
C28_Witness ==
    /\ mode = "tree"
    /\ pc = "built"
    /\ ~Acyclic(ConnectionGraph(store))
    /\ \E n \in DOMAIN store : isConnected(n, store[n])
    /\ tree[root] # <<>>
    /\ \E a, b \in DOMAIN store : a # b /\ tree[a] = <<b>> /\ tree[b] = <<a>>

\* no two records of the store rename the same old name differently
Unambiguous(nodes) ==
    \A k1 \in DOMAIN nodes : \A k2 \in DOMAIN nodes :
        \A old \in DOMAIN nodes[k1].renamings \cap DOMAIN nodes[k2].renamings :
            nodes[k1].renamings[old] = nodes[k2].renamings[old]

\* the rename pass gives one result whatever the enumeration of the store
OrderIndependent(nodes) ==
    \A o1 \in ItemOrders(nodes) : \A o2 \in ItemOrders(nodes) :
        renameConnections(nodes, o1) = renameConnections(nodes, o2)

\* the type of the utility node preprocessSampler creates for an output
UtilityType(port) == IF port = "facingRatio" THEN "facingRatio" ELSE "two_sided"

\* the connection p of the record k read an output of a samplerInfo node
\* for which a utility node was created
ConsumesSampler(k, p) ==
    LET e == hist.preprocessed[k].conns[p]
    IN /\ e.node \in DOMAIN Scene
       /\ Scene[e.node].type = "samplerInfo"
       /\ e.port \in {"facingRatio", "flippedNormal"}
       /\ \E u \in DOMAIN hist.preprocessed :
             e.node \in DOMAIN hist.preprocessed[u].renamings

\* after the first rename pass the consumer points at the utility node of
\* the output it consumed
PointsAtItsUtility(k, p) ==
    LET before == hist.preprocessed[k].conns[p]
        after == hist.renamed[k].conns[p]
    IN /\ after.node \in DOMAIN hist.renamed
       /\ hist.renamed[after.node].type = UtilityType(before.port)
       /\ before.node \in DOMAIN hist.renamed[after.node].renamings

\* C29: the flattened rename table is unambiguous: no two records of the
\* store rename the same old name to different replacements, the result of
\* the rename pass is the same for every enumeration of the store, and
\* every consumer of a samplerInfo output ends up pointing at the utility
\* node created for that output.
C29_RenameTableUnambiguous ==
    mode = "run" =>
        /\ Unambiguous(store)
        /\ pc = "rename" => OrderIndependent(store)
        /\ \A k \in DOMAIN hist.renamed : \A p \in DOMAIN hist.renamed[k].conns :
              ConsumesSampler(k, p) => PointsAtItsUtility(k, p)

\* exportTree's level of every node reached from the branch: the row it is
\* drawn on
RECURSIVE Levels(_, _, _)
RECURSIVE LevelsAmong(_, _, _)
Levels(ch, branch, level) ==
    (branch :> level) @@ LevelsAmong(ch, ch[branch], level + 1)
LevelsAmong(ch, leaves, level) ==
    IF leaves = <<>> THEN <<>>
    ELSE Levels(ch, Head(leaves), level) @@ LevelsAmong(ch, Tail(leaves), level)

\* the distance between the x positions of two nodes
Apart(a, b) ==
    IF layout[a].x >= layout[b].x THEN layout[a].x - layout[b].x
    ELSE layout[b].x - layout[a].x

\* C30: in every tree buildTree returns, two distinct nodes at the same
\* depth have x positions at least 260 apart (node width 200 plus spacing
\* 60), whether or not they share a parent, and every node's width is at
\* least 200
C30_RowsDoNotOverlap ==
    (mode = "tree" /\ pc = "built") =>
        LET lv == Levels(tree, root, 0)
        IN /\ DOMAIN lv = DOMAIN layout
           /\ \A a \in DOMAIN lv : \A b \in DOMAIN lv :
                 (a # b /\ lv[a] = lv[b]) => Apart(a, b) >= 260
           /\ \A n \in DOMAIN layout : layout[n].width >= 200
\* two nodes of one row under different parents
C30_Witness ==
    /\ mode = "tree"
    /\ pc = "built"
    /\ \E p \in DOMAIN tree \ {root} : \E q \in DOMAIN tree \ {root, p} :
           /\ tree[p] # <<>>
           /\ tree[q] # <<>>
           /\ Levels(tree, root, 0)[tree[p][1]] = Levels(tree, root, 0)[tree[q][1]]
           /\ Apart(tree[p][1], tree[q][1]) = 260

====
